---- MODULE Spec2Model ----
(***************************************************************************)
(* A model of the wispy compiler front end: lex (characters -> tokens),    *)
(* parse (tokens -> token trees -> AST) and compile (AST -> backend        *)
(* operations).  A JavaScript string is modelled as the sequence of its    *)
(* characters, each character a one-character TLA+ string.  A thrown       *)
(* Error is modelled as a non-empty `error' field of the result record.    *)
(***************************************************************************)
EXTENDS Integers, Sequences, FiniteSets, TLC

VARIABLES
  pc,       \* the stage to run next: "lex", "parse", "compile"; "done"; "failed"
  input,    \* the source text given to lex
  words,    \* the words lex extracted, one per token
  tokens0,  \* the token array as given to parse
  tokens,   \* the token array, consumed in place by parse
  trees,    \* the token trees parse consumed, one per top-level group
  ast,      \* the root block parse returned
  error,    \* the message of the Error thrown, NoError if none
  detail,   \* the word, name or type the message quotes
  mod,      \* the backend module: the calls made on it, in order
  fmap      \* the function map compile built

vars ==
  <<pc, input, words, tokens0, tokens, trees, ast, error, detail, mod, fmap>>

(***************************************************************************)
(* Bounds of the model.                                                    *)
(***************************************************************************)
MaxLen == 4

MaxTokens == 5

MaxParams == 3

MaxForms == 2

MaxItems == 3

(***************************************************************************)
(* Character classes of the lexer's regular expressions.                   *)
(***************************************************************************)
Digits == {"0", "1", "2", "3", "4", "5", "6", "7", "8", "9"}

Letters ==
  {"a", "b", "c", "d", "e", "f", "g", "h", "i", "j", "k", "l", "m",
   "n", "o", "p", "q", "r", "s", "t", "u", "v", "w", "x", "y", "z",
   "A", "B", "C", "D", "E", "F", "G", "H", "I", "J", "K", "L", "M",
   "N", "O", "P", "Q", "R", "S", "T", "U", "V", "W", "X", "Y", "Z"}

IdentifierStart == Letters \cup {"_"}

IdentifierRest == Letters \cup Digits \cup {"_", "-"}

BracketChars == {"(", ")", "[", "]"}

LeftBracketChars == {"(", "["}

\* The characters String.prototype.trim removes that the model's inputs use:
\* space, newline, tab and, unlike isWhitespace, carriage return and form feed.
TrimChars == {" ", "\n", "\t", "\r", "\f"}

NoError == ""

DigitValue(c) ==
  CASE c = "0" -> 0 [] c = "1" -> 1 [] c = "2" -> 2 [] c = "3" -> 3
    [] c = "4" -> 4 [] c = "5" -> 5 [] c = "6" -> 6 [] c = "7" -> 7
    [] c = "8" -> 8 [] c = "9" -> 9

AllIn(s, class) == \A i \in 1..Len(s) : s[i] \in class

\* /^[0-9]+$/
isInt(word) == Len(word) >= 1 /\ AllIn(word, Digits)

\* /^[0-9]+\.[0-9]+$/
isFloat(word) ==
  \E k \in 1..Len(word) :
    /\ word[k] = "."
    /\ isInt(SubSeq(word, 1, k - 1))
    /\ isInt(SubSeq(word, k + 1, Len(word)))

\* /^[a-zA-Z_][a-zA-Z0-9_\-]*$/
isIdentifier(word) ==
  /\ Len(word) >= 1
  /\ word[1] \in IdentifierStart
  /\ AllIn(Tail(word), IdentifierRest)

\* /^[a-zA-Z_][a-zA-Z0-9_\-]*:[a-zA-Z_][a-zA-Z0-9_\-]*$/
isTypedIdentifier(word) ==
  \E k \in 1..Len(word) :
    /\ word[k] = ":"
    /\ isIdentifier(SubSeq(word, 1, k - 1))
    /\ isIdentifier(SubSeq(word, k + 1, Len(word)))

\* /[\(\)\[\]]/ : not anchored, any word that contains a bracket matches.
isBracket(word) == \E i \in 1..Len(word) : word[i] \in BracketChars

isTerminatorToken(char) == isBracket(<<char>>)

isWhitespace(char) == char = " " \/ char = "\n" \/ char = "\t"

(***************************************************************************)
(* Number conversions.  parseInt yields the decimal value of the digits;   *)
(* parseFloat yields the decimal fraction num / den in lowest decimal      *)
(* form (trailing zeros of the fraction carry no value).                   *)
(***************************************************************************)
RECURSIVE DecimalValue(_)
DecimalValue(digits) ==
  IF digits = <<>> THEN 0
  ELSE 10 * DecimalValue(SubSeq(digits, 1, Len(digits) - 1))
         + DigitValue(digits[Len(digits)])

RECURSIVE Pow10(_)
Pow10(n) == IF n = 0 THEN 1 ELSE 10 * Pow10(n - 1)

parseInt(word) == DecimalValue(word)

RECURSIVE ReduceDecimal(_, _)
ReduceDecimal(num, den) ==
  IF den > 1 /\ num % 10 = 0 THEN ReduceDecimal(num \div 10, den \div 10)
  ELSE [num |-> num, den |-> den]

parseFloat(word) ==
  LET k == CHOOSE i \in 1..Len(word) : word[i] = "."
      whole == SubSeq(word, 1, k - 1)
      frac == SubSeq(word, k + 1, Len(word))
  IN ReduceDecimal(DecimalValue(whole \o frac), Pow10(Len(frac)))

(***************************************************************************)
(* The lexer.                                                              *)
(***************************************************************************)
RECURSIVE TrimStart(_)
TrimStart(s) ==
  IF s # <<>> /\ Head(s) \in TrimChars THEN TrimStart(Tail(s)) ELSE s

RECURSIVE TrimEnd(_)
TrimEnd(s) ==
  IF s # <<>> /\ s[Len(s)] \in TrimChars
  THEN TrimEnd(SubSeq(s, 1, Len(s) - 1)) ELSE s

trim(s) == TrimEnd(TrimStart(s))

\* consumeNextWordLoop without the break on a bracket that follows a started
\* word: the bracket is consumed into the word.
RECURSIVE consumeNextWordLoopBracketJoinsWord(_, _)
consumeNextWordLoopBracketJoinsWord(chars, token) ==
  IF chars = <<>> THEN [word |-> token, chars |-> chars]
  ELSE LET char == Head(chars) IN
    IF isWhitespace(char) /\ token # <<>>
      THEN [word |-> token, chars |-> Tail(chars)]
    ELSE IF isWhitespace(char)
      THEN consumeNextWordLoopBracketJoinsWord(Tail(chars), token)
    ELSE IF isTerminatorToken(char)
      THEN [word |-> Append(token, char), chars |-> Tail(chars)]
    ELSE consumeNextWordLoopBracketJoinsWord(Tail(chars), Append(token, char))

RECURSIVE consumeNextWordLoop(_, _)
\* consumeNextWordLoop that leaves a bracket that is the whole word in the
\* array.
consumeNextWordLoopKeepsBracket(chars, token) ==
  IF chars = <<>> THEN [word |-> token, chars |-> chars]
  ELSE LET char == Head(chars) IN
    IF isWhitespace(char) /\ token # <<>>
      THEN [word |-> token, chars |-> Tail(chars)]
    ELSE IF isWhitespace(char)
      THEN consumeNextWordLoop(Tail(chars), token)
    ELSE IF isTerminatorToken(char) /\ token # <<>>
      THEN [word |-> token, chars |-> chars]
    ELSE IF isTerminatorToken(char)
      THEN [word |-> Append(token, char), chars |-> chars]
    ELSE consumeNextWordLoop(Tail(chars), Append(token, char))

\* The word loop of consumeNextWord: `token' is the word accumulated so far.
\* Yields the word (the empty sequence stands for undefined) and the
\* characters left in the array.
consumeNextWordLoop(chars, token) ==
  IF chars = <<>> THEN [word |-> token, chars |-> chars]
  ELSE LET char == Head(chars) IN
    IF isWhitespace(char) /\ token # <<>>
      THEN [word |-> token, chars |-> Tail(chars)]
    ELSE IF isWhitespace(char)
      THEN consumeNextWordLoop(Tail(chars), token)
    ELSE IF isTerminatorToken(char) /\ token # <<>>
      THEN [word |-> token, chars |-> chars]
    ELSE IF isTerminatorToken(char)
      THEN [word |-> Append(token, char), chars |-> Tail(chars)]
    ELSE consumeNextWordLoop(Tail(chars), Append(token, char))

consumeNextWord(chars) == consumeNextWordLoop(chars, <<>>)

UnknownToken == "Unknown token"

\* identifyToken without the typed-identifier case.
identifyTokenNoTypedIdentifier(word) ==
  IF isInt(word) THEN [type |-> "int", value |-> parseInt(word)]
  ELSE IF isFloat(word) THEN [type |-> "float", value |-> parseFloat(word)]
  ELSE IF isIdentifier(word) THEN [type |-> "identifier", value |-> word]
  ELSE IF isBracket(word) THEN [type |-> "bracket", value |-> word]
  ELSE [type |-> "unknown", value |-> word]

\* The token of a word; type "unknown" stands for the thrown Error.
identifyToken(word) ==
  IF isInt(word) THEN [type |-> "int", value |-> parseInt(word)]
  ELSE IF isFloat(word) THEN [type |-> "float", value |-> parseFloat(word)]
  ELSE IF isIdentifier(word) THEN [type |-> "identifier", value |-> word]
  ELSE IF isBracket(word) THEN [type |-> "bracket", value |-> word]
  ELSE IF isTypedIdentifier(word)
    THEN [type |-> "typed-identifier", value |-> word]
  ELSE [type |-> "unknown", value |-> word]

\* One pass of the `while (chars.length)' loop of lex on the loop state s:
\* `words' records the word each token was made from, `done' that the loop
\* has been left (by its condition, by the break or by the thrown Error).
lexPass(s) ==
  IF s.chars = <<>> THEN [s EXCEPT !.done = TRUE]
  ELSE LET r == consumeNextWord(s.chars) IN
    IF r.word = <<>> THEN [s EXCEPT !.done = TRUE]
    ELSE LET token == identifyToken(r.word) IN
      IF token.type = "unknown"
        THEN [chars |-> r.chars, error |-> UnknownToken, tokens |-> <<>>,
              words |-> Append(s.words, r.word), done |-> TRUE]
      ELSE [chars |-> r.chars, error |-> NoError,
            tokens |-> Append(s.tokens, token),
            words |-> Append(s.words, r.word), done |-> FALSE]

\* The loop of lex run for at most n passes from state s, the passes taken
\* in order (the first half of them, then the rest).
RECURSIVE lexLoop(_, _)
lexLoop(s, n) ==
  IF s.done \/ n = 0 THEN s
  ELSE IF n = 1 THEN lexPass(s)
  ELSE lexLoop(lexLoop(s, n \div 2), n - (n \div 2))

\* Every pass but the last consumes a character, so Len(chars) + 1 passes
\* run the loop to its end.
lex(in) ==
  LET chars == trim(in)
      r == lexLoop([chars |-> chars, error |-> NoError, tokens |-> <<>>,
                    words |-> <<>>, done |-> FALSE], Len(chars) + 1)
  IN [error |-> r.error, tokens |-> r.tokens, words |-> r.words]

(***************************************************************************)
(* The parser.  A token tree (a JavaScript array) is the record            *)
(* [type |-> "tree", items |-> <<...>>]; its items are non-bracket tokens  *)
(* and token trees.  Every operation on the token array yields the array   *)
(* it leaves behind, since the array is consumed in place.                 *)
(***************************************************************************)
ExpectedBracket == "Expected bracket"

ExpectedLeftBracket == "Expected left bracket"

UnrecognizedExpression == "Unrecognized expression"

\* getBracketDirection with only the parenthesis recognised as opening.
getBracketDirectionParenthesisOnly(token) ==
  IF token.type # "bracket" THEN ExpectedBracket
  ELSE IF \E i \in 1..Len(token.value) : token.value[i] = "("
    THEN "left"
  ELSE "right"

\* "left", "right", or the thrown Error for a token that is no bracket.
getBracketDirection(token) ==
  IF token.type # "bracket" THEN ExpectedBracket
  ELSE IF \E i \in 1..Len(token.value) : token.value[i] \in LeftBracketChars
    THEN "left"
  ELSE "right"

\* consumeLeftBracket without the check of the bracket's direction.
consumeLeftBracketAnyDirection(toks) ==
  LET bracketDirection == getBracketDirection(toks[1]) IN
    IF bracketDirection = ExpectedBracket
      THEN [error |-> ExpectedBracket, tokens |-> toks]
    ELSE [error |-> NoError, tokens |-> Tail(toks)]

consumeLeftBracket(toks) ==
  LET bracketDirection == getBracketDirection(toks[1]) IN
    IF bracketDirection = ExpectedBracket
      THEN [error |-> ExpectedBracket, tokens |-> toks]
    ELSE IF bracketDirection # "left"
      THEN [error |-> ExpectedLeftBracket, tokens |-> toks]
    ELSE [error |-> NoError, tokens |-> Tail(toks)]

isArray(item) == item.type = "tree"

RECURSIVE consumeTokenTree(_)
\* consumeTokenTreeLoop that consumes a nested group without pushing it.
RECURSIVE consumeTokenTreeLoopDropsGroup(_, _)
consumeTokenTreeLoopDropsGroup(toks, tree) ==
  IF toks = <<>>
    THEN [error |-> NoError, tree |-> [type |-> "tree", items |-> tree],
          tokens |-> toks]
  ELSE LET token == toks[1] IN
    IF token.type = "bracket" /\ getBracketDirection(token) = "left"
      THEN LET sub == consumeTokenTree(toks) IN
        IF sub.error # NoError THEN sub
        ELSE consumeTokenTreeLoopDropsGroup(sub.tokens, tree)
    ELSE IF token.type = "bracket" /\ getBracketDirection(token) = "right"
      THEN [error |-> NoError, tree |-> [type |-> "tree", items |-> tree],
            tokens |-> Tail(toks)]
    ELSE consumeTokenTreeLoopDropsGroup(Tail(toks), Append(tree, token))

RECURSIVE consumeTokenTreeLoop(_, _)
consumeTokenTreeLoop(toks, tree) ==
  IF toks = <<>>
    THEN [error |-> NoError, tree |-> [type |-> "tree", items |-> tree],
          tokens |-> toks]
  ELSE LET token == toks[1] IN
    IF token.type = "bracket" /\ getBracketDirection(token) = "left"
      THEN LET sub == consumeTokenTree(toks) IN
        IF sub.error # NoError THEN sub
        ELSE consumeTokenTreeLoop(sub.tokens, Append(tree, sub.tree))
    ELSE IF token.type = "bracket" /\ getBracketDirection(token) = "right"
      THEN [error |-> NoError, tree |-> [type |-> "tree", items |-> tree],
            tokens |-> Tail(toks)]
    ELSE consumeTokenTreeLoop(Tail(toks), Append(tree, token))

consumeTokenTree(toks) ==
  LET left == consumeLeftBracket(toks) IN
    IF left.error # NoError
      THEN [error |-> left.error, tree |-> [type |-> "tree", items |-> <<>>],
            tokens |-> left.tokens]
    ELSE consumeTokenTreeLoop(left.tokens, <<>>)

isTokenType(item, type) == ~isArray(item) /\ item.type = type

parseFloatToken(float) == [type |-> "float", value |-> float.value]

parseIntToken(int) == [type |-> "int", value |-> int.value]

parseIdentifier(identifier) ==
  [type |-> "identifier", identifier |-> identifier.value]

\* String.prototype.split(":"): the pieces between the colons, in order.
RECURSIVE split(_, _)
split(s, sep) ==
  IF \A i \in 1..Len(s) : s[i] # sep THEN <<s>>
  ELSE LET k == CHOOSE i \in 1..Len(s) :
                  s[i] = sep /\ \A j \in 1..(i - 1) : s[j] # sep
       IN <<SubSeq(s, 1, k - 1)>> \o split(SubSeq(s, k + 1, Len(s)), sep)

\* parseTypedIdentifier that takes the type name from the first piece.
parseTypedIdentifierFirstPieceTwice(identifier) ==
  LET vals == split(identifier.value, ":") IN
    [type |-> "typed-identifier", identifier |-> vals[1],
     typeIdentifier |-> vals[1]]

parseTypedIdentifier(identifier) ==
  LET vals == split(identifier.value, ":") IN
    [type |-> "typed-identifier", identifier |-> vals[1],
     typeIdentifier |-> vals[2]]

ErrorNode == [type |-> "error"]

\* What the caller of parse holds when parse has thrown: no AST.
NoAst == [type |-> "none"]

RECURSIVE parseExpression(_)
RECURSIVE parseBlock(_)
\* block.map(parseExpression); an Error thrown for an item is ErrorNode.
parseBlock(block) ==
  [type |-> "block",
   expressions |-> [i \in 1..Len(block.items) |->
                      parseExpression(block.items[i])]]

parseExpression(expression) ==
  IF isArray(expression) THEN parseBlock(expression)
  ELSE IF isTokenType(expression, "identifier")
    THEN parseIdentifier(expression)
  ELSE IF isTokenType(expression, "typed-identifier")
    THEN parseTypedIdentifier(expression)
  ELSE IF isTokenType(expression, "float") THEN parseFloatToken(expression)
  ELSE IF isTokenType(expression, "int") THEN parseIntToken(expression)
  ELSE ErrorNode

RECURSIVE HasErrorNode(_)
HasErrorNode(node) ==
  \/ node.type = "error"
  \/ /\ node.type = "block"
     /\ \E i \in 1..Len(node.expressions) : HasErrorNode(node.expressions[i])

\* The loop of parse: one token tree and one block per iteration.  `ts' keeps
\* the token trees consumed so far.
RECURSIVE parseLoop(_, _, _)
parseLoop(toks, blocks, ts) ==
  IF toks = <<>>
    THEN [error |-> NoError, tokens |-> toks, trees |-> ts,
          ast |-> [type |-> "block", expressions |-> blocks]]
  ELSE LET r == consumeTokenTree(toks) IN
    IF r.error # NoError
      THEN [error |-> r.error, tokens |-> r.tokens, trees |-> ts,
            ast |-> NoAst]
    ELSE LET block == parseBlock(r.tree) IN
      IF HasErrorNode(block)
        THEN [error |-> UnrecognizedExpression, tokens |-> r.tokens,
              trees |-> Append(ts, r.tree), ast |-> NoAst]
      ELSE parseLoop(r.tokens, Append(blocks, block), Append(ts, r.tree))

\* parse that works on a copy of the token array and leaves the caller's
\* array as it was.
parseOnCopy(toks) == [parseLoop(toks, <<>>, <<>>) EXCEPT !.tokens = toks]

parse(toks) == parseLoop(toks, <<>>, <<>>)

(***************************************************************************)
(* The compiler.  The backend module is modelled as the sequence of the    *)
(* calls made on it, in call order: every expression built, every          *)
(* addFunction and every addFunctionExport.  A backend expression          *)
(* reference is modelled as the expression it refers to.  A JavaScript Map *)
(* is modelled as a function on its keys.                                  *)
(***************************************************************************)
fnName == <<"f", "n">>

ifName == <<"i", "f">>

i32Name == <<"i", "3", "2">>

f32Name == <<"f", "3", "2">>

Undefined == [type |-> "undefined"]

NoDetail == <<>>

NewModule == <<>>

NewMap == <<>>

ExpectedTypedFunctionName == "Expected typed function name"

ExpectedFunctionParameters == "Expected function parameters"

AllParametersMustBeTyped == "All parameters must be typed"

UnsupportedType == "Unsupported type"

FunctionNotFound == "Function not found"

UnrecognizedIdentifier == "Unrecognized identifier"

TypeError == "TypeError"

\* array[i] of JavaScript, i counted from 0: undefined beyond the end.
At(array, i) == IF i + 1 <= Len(array) THEN array[i + 1] ELSE Undefined

\* array.slice(n)
slice(array, n) == SubSeq(array, n + 1, Len(array))

isNodeType(item, type) == item.type = type

\* new Map([...a, ...b]): an entry of b replaces the entry of a with its key.
MapMerge(a, b) ==
  [k \in (DOMAIN a) \cup (DOMAIN b) |-> IF k \in DOMAIN b THEN b[k] ELSE a[k]]

MapSet(map, key, val) == MapMerge(map, [k \in {key} |-> val])

MapHas(map, key) == key \in DOMAIN map

\* mapBinaryenType that takes every other type name for i32.
mapBinaryenTypeDefaultsToI32(typeIdentifier) ==
  IF typeIdentifier = <<"f", "3", "2">> THEN "f32" ELSE "i32"

\* The backend type of a type name; "unsupported" stands for the thrown Error.
mapBinaryenType(typeIdentifier) ==
  IF typeIdentifier = i32Name THEN "i32"
  ELSE IF typeIdentifier = f32Name THEN "f32"
  ELSE "unsupported"

getFunctionIdentifier(block) ==
  LET node == At(block.expressions, 1) IN
    IF ~isNodeType(node, "typed-identifier")
      THEN [error |-> ExpectedTypedFunctionName, detail |-> NoDetail]
    ELSE IF mapBinaryenType(node.typeIdentifier) = "unsupported"
      THEN [error |-> UnsupportedType, detail |-> node.typeIdentifier]
    ELSE [error |-> NoError, detail |-> NoDetail,
          identifier |-> node.identifier,
          returnType |-> mapBinaryenType(node.typeIdentifier)]

\* The reducer of getFunctionParameters that gives a plain identifier in the
\* parameter list the type i32.
RECURSIVE getFunctionParametersReduce(_, _, _)
getFunctionParametersReduceDefaultsType(nodes, index, prev) ==
  IF index >= Len(nodes) THEN prev
  ELSE LET node == At(nodes, index) IN
    IF ~isNodeType(node, "typed-identifier")
       /\ ~isNodeType(node, "identifier")
      THEN [error |-> AllParametersMustBeTyped, detail |-> NoDetail]
    ELSE LET type == IF isNodeType(node, "identifier") THEN "i32"
                     ELSE mapBinaryenType(node.typeIdentifier) IN
      IF type = "unsupported"
        THEN [error |-> UnsupportedType, detail |-> node.typeIdentifier]
      ELSE getFunctionParametersReduce(nodes, index + 1,
             [error |-> NoError, detail |-> NoDetail,
              parameters |->
                MapMerge([k \in {node.identifier} |->
                            [index |-> index, type |-> type]],
                         prev.parameters),
              types |-> <<type>> \o prev.types])

\* The reducer of getFunctionParameters over node.expressions, from `index'
\* (counted from 0) on; prev holds the parameters and types so far.
getFunctionParametersReduce(nodes, index, prev) ==
  IF index >= Len(nodes) THEN prev
  ELSE LET node == At(nodes, index) IN
    IF ~isNodeType(node, "typed-identifier")
      THEN [error |-> AllParametersMustBeTyped, detail |-> NoDetail]
    ELSE LET type == mapBinaryenType(node.typeIdentifier) IN
      IF type = "unsupported"
        THEN [error |-> UnsupportedType, detail |-> node.typeIdentifier]
      ELSE getFunctionParametersReduce(nodes, index + 1,
             [error |-> NoError, detail |-> NoDetail,
              parameters |->
                MapMerge([k \in {node.identifier} |->
                            [index |-> index, type |-> type]],
                         prev.parameters),
              types |-> <<type>> \o prev.types])

getFunctionParameters(block) ==
  LET node == At(block.expressions, 2) IN
    IF ~isNodeType(node, "block")
      THEN [error |-> ExpectedFunctionParameters, detail |-> NoDetail]
    ELSE LET r == getFunctionParametersReduce(node.expressions, 0,
                    [error |-> NoError, detail |-> NoDetail,
                     parameters |-> NewMap, types |-> <<>>])
         IN IF r.error # NoError THEN r
            ELSE [error |-> NoError, detail |-> NoDetail,
                  parameters |-> r.parameters,
                  parameterTypes |-> r.types]

\* The fn case and the scan of generateFunctionMap.  Yields the map, or the
\* Error thrown by getFunctionIdentifier.
RECURSIVE generateFunctionMap(_)
RECURSIVE generateFunctionMapReduce(_, _, _)
\* The scan of generateFunctionMap that stops after the first block.
generateFunctionMapReduceFirstBlockOnly(expressions, i, map) ==
  IF i > Len(expressions)
    THEN [error |-> NoError, detail |-> NoDetail, map |-> map]
  ELSE LET expression == expressions[i] IN
    IF expression.type = "block"
      THEN LET r == generateFunctionMap(expression) IN
        IF r.error # NoError THEN r
        ELSE [error |-> NoError, detail |-> NoDetail,
              map |-> MapMerge(map, r.map)]
    ELSE generateFunctionMapReduce(expressions, i + 1, map)

generateFunctionMapReduce(expressions, i, map) ==
  IF i > Len(expressions)
    THEN [error |-> NoError, detail |-> NoDetail, map |-> map]
  ELSE LET expression == expressions[i] IN
    IF expression.type = "block"
      THEN LET r == generateFunctionMap(expression) IN
        IF r.error # NoError THEN r
        ELSE generateFunctionMapReduce(expressions, i + 1,
                                       MapMerge(map, r.map))
    ELSE generateFunctionMapReduce(expressions, i + 1, map)

\* generateFunctionMap that records a definition without scanning its body.
generateFunctionMapSkipsBody(block) ==
  LET firstNode == At(block.expressions, 0) IN
    IF isNodeType(firstNode, "identifier") /\ firstNode.identifier = fnName
      THEN LET id == getFunctionIdentifier(block) IN
        IF id.error # NoError
          THEN [error |-> id.error, detail |-> id.detail, map |-> NewMap]
        ELSE [error |-> NoError, detail |-> NoDetail,
              map |-> [k \in {id.identifier} |->
                         [returnType |-> id.returnType]]]
    ELSE generateFunctionMapReduce(block.expressions, 1, NewMap)

generateFunctionMap(block) ==
  LET firstNode == At(block.expressions, 0) IN
    IF isNodeType(firstNode, "identifier") /\ firstNode.identifier = fnName
      THEN LET id == getFunctionIdentifier(block) IN
        IF id.error # NoError
          THEN [error |-> id.error, detail |-> id.detail, map |-> NewMap]
        ELSE LET r == generateFunctionMap(
                        [type |-> "block",
                         expressions |-> slice(block.expressions, 3)])
             IN IF r.error # NoError THEN r
                ELSE [error |-> NoError, detail |-> NoDetail,
                      map |-> MapMerge(
                        [k \in {id.identifier} |->
                           [returnType |-> id.returnType]],
                        r.map)]
    ELSE generateFunctionMapReduce(block.expressions, 1, NewMap)

(***************************************************************************)
(* Backend calls.                                                          *)
(***************************************************************************)
Built(m, e) == Append(m, [call |-> "expression", expr |-> e])

Const(type, value) == [op |-> "const", type |-> type, value |-> value]

LocalGet(index, type) == [op |-> "local.get", index |-> index, type |-> type]

BlockOp(children) == [op |-> "block", children |-> children, type |-> "auto"]

CallOp(target, operands, returnType) ==
  [op |-> "call", target |-> target, operands |-> operands,
   type |-> returnType]

IfOp(condition, ifTrue, ifFalse) ==
  [op |-> "if", condition |-> condition, ifTrue |-> ifTrue,
   ifFalse |-> ifFalse]

BinaryOp(operator, left, right) ==
  [op |-> "binary", operator |-> operator, left |-> left, right |-> right]

NopOp == [op |-> "nop"]

NoOperand == [op |-> "undefined"]

AddFunction(m, name, params, results, body) ==
  Append(m, [call |-> "addFunction", name |-> name, params |-> params,
             results |-> results, body |-> body])

AddFunctionExport(m, internalName, externalName) ==
  Append(m, [call |-> "addFunctionExport", internalName |-> internalName,
             externalName |-> externalName])

\* The built-in functions in the order registerStandardFunctions registers
\* them; a logic function returns i32, a math function its operand type.
StandardFunctions ==
  << [name |-> <<"l", "t", "_", "i", "3", "2">>, type |-> "i32",
      operator |-> "i32.lt_s", returnType |-> "i32"],
     [name |-> <<"g", "t", "_", "i", "3", "2">>, type |-> "i32",
      operator |-> "i32.gt_s", returnType |-> "i32"],
     [name |-> <<"e", "q", "_", "i", "3", "2">>, type |-> "i32",
      operator |-> "i32.eq", returnType |-> "i32"],
     [name |-> <<"l", "t", "_", "f", "3", "2">>, type |-> "f32",
      operator |-> "f32.lt", returnType |-> "i32"],
     [name |-> <<"g", "t", "_", "f", "3", "2">>, type |-> "f32",
      operator |-> "f32.gt", returnType |-> "i32"],
     [name |-> <<"e", "q", "_", "f", "3", "2">>, type |-> "f32",
      operator |-> "f32.eq", returnType |-> "i32"],
     [name |-> <<"a", "d", "d", "_", "i", "3", "2">>, type |-> "i32",
      operator |-> "i32.add", returnType |-> "i32"],
     [name |-> <<"s", "u", "b", "_", "i", "3", "2">>, type |-> "i32",
      operator |-> "i32.sub", returnType |-> "i32"],
     [name |-> <<"m", "u", "l", "_", "i", "3", "2">>, type |-> "i32",
      operator |-> "i32.mul", returnType |-> "i32"],
     [name |-> <<"a", "d", "d", "_", "f", "3", "2">>, type |-> "f32",
      operator |-> "f32.add", returnType |-> "f32"],
     [name |-> <<"s", "u", "b", "_", "f", "3", "2">>, type |-> "f32",
      operator |-> "f32.sub", returnType |-> "f32"],
     [name |-> <<"m", "u", "l", "_", "f", "3", "2">>, type |-> "f32",
      operator |-> "f32.mul", returnType |-> "f32"],
     [name |-> <<"d", "i", "v", "_", "f", "3", "2">>, type |-> "f32",
      operator |-> "f32.div", returnType |-> "f32"] >>

\* registerBinaryFunction that hands the operator parameter 1, then
\* parameter 0.
registerBinaryFunctionOperandsSwapped(m, map, f) ==
  LET left == LocalGet(1, f.type)
      right == LocalGet(0, f.type)
      operation == BinaryOp(f.operator, left, right)
      body == BlockOp(<<operation>>)
      m1 == Built(Built(Built(Built(m, left), right), operation), body)
  IN [mod |-> AddFunction(m1, f.name, <<f.type, f.type>>, f.returnType, body),
      map |-> MapSet(map, f.name, [returnType |-> f.returnType])]

\* One built-in: its two parameter reads, the operator, the body block, the
\* function, and its entry in the function map.
registerBinaryFunction(m, map, f) ==
  LET left == LocalGet(0, f.type)
      right == LocalGet(1, f.type)
      operation == BinaryOp(f.operator, left, right)
      body == BlockOp(<<operation>>)
      m1 == Built(Built(Built(Built(m, left), right), operation), body)
  IN [mod |-> AddFunction(m1, f.name, <<f.type, f.type>>, f.returnType, body),
      map |-> MapSet(map, f.name, [returnType |-> f.returnType])]

RECURSIVE registerStandardFunctionsFrom(_, _, _)
registerStandardFunctionsFrom(m, map, i) ==
  IF i > Len(StandardFunctions) THEN [mod |-> m, map |-> map]
  ELSE LET r == registerBinaryFunction(m, map, StandardFunctions[i])
       IN registerStandardFunctionsFrom(r.mod, r.map, i + 1)

\* The calls and the map entries of the built-ins do not depend on the
\* module or the map they are added to: they are computed once, appended to
\* the module and written over the map.
StandardRegistration == registerStandardFunctionsFrom(NewModule, NewMap, 1)

registerStandardFunctions(m, map) ==
  [mod |-> m \o StandardRegistration.mod,
   map |-> MapMerge(map, StandardRegistration.map)]

(***************************************************************************)
(* Expression compilation.  Each operator yields the Error thrown (error,  *)
(* detail), the expression built (expr) and the module after its calls.    *)
(***************************************************************************)
Ok(e, m) == [error |-> NoError, detail |-> NoDetail, expr |-> e, mod |-> m]

Throw(msg, quoted, m) ==
  [error |-> msg, detail |-> quoted, expr |-> NoOperand, mod |-> m]

\* compileIdentifier that reads slot 0 whatever the parameter.
compileIdentifierSlotZero(node, m, parameters, functionMap) ==
  IF ~MapHas(parameters, node.identifier)
    THEN Throw(UnrecognizedIdentifier, node.identifier, m)
  ELSE LET info == parameters[node.identifier]
           e == LocalGet(0, info.type)
       IN Ok(e, Built(m, e))

compileIdentifier(node, m, parameters, functionMap) ==
  IF ~MapHas(parameters, node.identifier)
    THEN Throw(UnrecognizedIdentifier, node.identifier, m)
  ELSE LET info == parameters[node.identifier]
           e == LocalGet(info.index, info.type)
       IN Ok(e, Built(m, e))

RECURSIVE compileExpression(_, _, _, _)
RECURSIVE compileBlock(_, _, _, _)
RECURSIVE compileFunctionCall(_, _, _, _)
RECURSIVE compileFunction(_, _, _, _)
RECURSIVE compileIf(_, _, _, _)
RECURSIVE compileEach(_, _, _, _, _)

\* expressions.map(compileExpression), left to right from the i-th; `done'
\* holds the expressions built so far.  Stops at the first Error.
compileEach(expressions, m, parameters, functionMap, done) ==
  IF Len(done) >= Len(expressions) THEN Ok(done, m)
  ELSE LET r == compileExpression(expressions[Len(done) + 1], m, parameters,
                                  functionMap)
       IN IF r.error # NoError THEN r
          ELSE compileEach(expressions, r.mod, parameters, functionMap,
                           Append(done, r.expr))

compileExpression(expression, m, parameters, functionMap) ==
  IF isNodeType(expression, "block")
    THEN compileBlock(expression, m, parameters, functionMap)
  ELSE IF isNodeType(expression, "int")
    THEN Ok(Const("i32", expression.value),
            Built(m, Const("i32", expression.value)))
  ELSE IF isNodeType(expression, "float")
    THEN Ok(Const("f32", expression.value),
            Built(m, Const("f32", expression.value)))
  ELSE IF isNodeType(expression, "identifier")
    THEN compileIdentifier(expression, m, parameters, functionMap)
  ELSE IF expression = Undefined THEN Throw(TypeError, NoDetail, m)
  ELSE Throw(UnrecognizedExpression, expression.type, m)

\* compileBlock that takes every block headed by an identifier for a call.
compileBlockAnyIdentifierHead(block, m, parameters, functionMap) ==
  IF isNodeType(At(block.expressions, 0), "identifier")
    THEN compileFunctionCall(block, m, parameters, functionMap)
  ELSE LET r == compileEach(block.expressions, m, parameters, functionMap,
                            <<>>)
       IN IF r.error # NoError THEN r
          ELSE Ok(BlockOp(r.expr), Built(r.mod, BlockOp(r.expr)))

\* The elements of a sequence, last to first.
Reversed(s) == [i \in 1..Len(s) |-> s[Len(s) + 1 - i]]

\* compileBlock that hands the backend the compiled children last to first.
compileBlockChildrenReversed(block, m, parameters, functionMap) ==
  IF /\ isNodeType(At(block.expressions, 0), "identifier")
     /\ Len(block.expressions) > 1
    THEN compileFunctionCall(block, m, parameters, functionMap)
  ELSE LET r == compileEach(block.expressions, m, parameters, functionMap,
                            <<>>)
       IN IF r.error # NoError THEN r
          ELSE Ok(BlockOp(Reversed(r.expr)),
                  Built(r.mod, BlockOp(Reversed(r.expr))))

compileBlock(block, m, parameters, functionMap) ==
  IF /\ isNodeType(At(block.expressions, 0), "identifier")
     /\ Len(block.expressions) > 1
    THEN compileFunctionCall(block, m, parameters, functionMap)
  ELSE LET r == compileEach(block.expressions, m, parameters, functionMap,
                            <<>>)
       IN IF r.error # NoError THEN r
          ELSE Ok(BlockOp(r.expr), Built(r.mod, BlockOp(r.expr)))

\* compileFunctionCall that gives every call the return type i32.
compileFunctionCallReturnsI32(expression, m, parameters, functionMap) ==
  LET identifierNode == At(expression.expressions, 0)
      identifier == identifierNode.identifier
  IN IF identifier = fnName
       THEN compileFunction(expression, m, parameters, functionMap)
     ELSE IF identifier = ifName
       THEN compileIf(expression, m, parameters, functionMap)
     ELSE IF ~MapHas(functionMap, identifier)
       THEN Throw(FunctionNotFound, identifier, m)
     ELSE LET args == compileEach(slice(expression.expressions, 1), m,
                                  parameters, functionMap, <<>>)
          IN IF args.error # NoError THEN args
             ELSE LET e == CallOp(identifier, args.expr, "i32")
                  IN Ok(e, Built(args.mod, e))

\* compileFunctionCall that looks the head up in the function map before it
\* tests for `fn' and `if'.
compileFunctionCallMapFirst(expression, m, parameters, functionMap) ==
  LET identifierNode == At(expression.expressions, 0)
      identifier == identifierNode.identifier
  IN IF MapHas(functionMap, identifier)
       THEN LET args == compileEach(slice(expression.expressions, 1), m,
                                    parameters, functionMap, <<>>)
            IN IF args.error # NoError THEN args
               ELSE LET e == CallOp(identifier, args.expr,
                                    functionMap[identifier].returnType)
                    IN Ok(e, Built(args.mod, e))
     ELSE IF identifier = fnName
       THEN compileFunction(expression, m, parameters, functionMap)
     ELSE IF identifier = ifName
       THEN compileIf(expression, m, parameters, functionMap)
     ELSE Throw(FunctionNotFound, identifier, m)

compileFunctionCall(expression, m, parameters, functionMap) ==
  LET identifierNode == At(expression.expressions, 0)
      identifier == identifierNode.identifier
  IN IF identifier = fnName
       THEN compileFunction(expression, m, parameters, functionMap)
     ELSE IF identifier = ifName
       THEN compileIf(expression, m, parameters, functionMap)
     ELSE IF ~MapHas(functionMap, identifier)
       THEN Throw(FunctionNotFound, identifier, m)
     ELSE LET args == compileEach(slice(expression.expressions, 1), m,
                                  parameters, functionMap, <<>>)
          IN IF args.error # NoError THEN args
             ELSE LET e == CallOp(identifier, args.expr,
                                  functionMap[identifier].returnType)
                  IN Ok(e, Built(args.mod, e))

\* compileFunction that registers the function without exporting it.
compileFunctionWithoutExport(block, m, parameters, functionMap) ==
  LET id == getFunctionIdentifier(block) IN
    IF id.error # NoError THEN Throw(id.error, id.detail, m)
    ELSE LET ps == getFunctionParameters(block) IN
      IF ps.error # NoError THEN Throw(ps.error, ps.detail, m)
      ELSE LET body == compileBlock(
                         [type |-> "block",
                          expressions |-> slice(block.expressions, 3)],
                         m, ps.parameters, functionMap)
           IN IF body.error # NoError THEN body
              ELSE Ok(NopOp,
                      Built(AddFunction(body.mod, id.identifier,
                                        ps.parameterTypes, id.returnType,
                                        body.expr),
                            NopOp))

\* compileFunction that compiles the body as a sequence of its elements
\* whatever its first element is.
compileFunctionBodyAsSequence(block, m, parameters, functionMap) ==
  LET id == getFunctionIdentifier(block) IN
    IF id.error # NoError THEN Throw(id.error, id.detail, m)
    ELSE LET ps == getFunctionParameters(block) IN
      IF ps.error # NoError THEN Throw(ps.error, ps.detail, m)
      ELSE LET each == compileEach(slice(block.expressions, 3), m,
                                   ps.parameters, functionMap, <<>>)
               body == IF each.error # NoError THEN each
                       ELSE Ok(BlockOp(each.expr),
                               Built(each.mod, BlockOp(each.expr)))
           IN IF body.error # NoError THEN body
              ELSE Ok(NopOp,
                      Built(AddFunctionExport(
                              AddFunction(body.mod, id.identifier,
                                          ps.parameterTypes, id.returnType,
                                          body.expr),
                              id.identifier, id.identifier),
                            NopOp))

\* compileFunction that registers the function ahead of everything the
\* compilation of its body registers.
compileFunctionRegistersFirst(block, m, parameters, functionMap) ==
  LET id == getFunctionIdentifier(block) IN
    IF id.error # NoError THEN Throw(id.error, id.detail, m)
    ELSE LET ps == getFunctionParameters(block) IN
      IF ps.error # NoError THEN Throw(ps.error, ps.detail, m)
      ELSE LET body == compileBlock(
                         [type |-> "block",
                          expressions |-> slice(block.expressions, 3)],
                         m, ps.parameters, functionMap)
           IN IF body.error # NoError THEN body
              ELSE Ok(NopOp,
                      Built(AddFunctionExport(
                              AddFunction(m, id.identifier,
                                          ps.parameterTypes, id.returnType,
                                          body.expr),
                              id.identifier, id.identifier)
                              \o SubSeq(body.mod, Len(m) + 1, Len(body.mod)),
                            NopOp))

\* compileFunction that adds the definition's parameters to the table of the
\* enclosing function instead of replacing it.
compileFunctionMergesParameters(block, m, parameters, functionMap) ==
  LET id == getFunctionIdentifier(block) IN
    IF id.error # NoError THEN Throw(id.error, id.detail, m)
    ELSE LET ps == getFunctionParameters(block) IN
      IF ps.error # NoError THEN Throw(ps.error, ps.detail, m)
      ELSE LET body == compileBlock(
                         [type |-> "block",
                          expressions |-> slice(block.expressions, 3)],
                         m, MapMerge(parameters, ps.parameters), functionMap)
           IN IF body.error # NoError THEN body
              ELSE Ok(NopOp,
                      Built(AddFunctionExport(
                              AddFunction(body.mod, id.identifier,
                                          ps.parameterTypes, id.returnType,
                                          body.expr),
                              id.identifier, id.identifier),
                            NopOp))

compileFunction(block, m, parameters, functionMap) ==
  LET id == getFunctionIdentifier(block) IN
    IF id.error # NoError THEN Throw(id.error, id.detail, m)
    ELSE LET ps == getFunctionParameters(block) IN
      IF ps.error # NoError THEN Throw(ps.error, ps.detail, m)
      ELSE LET body == compileBlock(
                         [type |-> "block",
                          expressions |-> slice(block.expressions, 3)],
                         m, ps.parameters, functionMap)
           IN IF body.error # NoError THEN body
              ELSE Ok(NopOp,
                      Built(AddFunctionExport(
                              AddFunction(body.mod, id.identifier,
                                          ps.parameterTypes, id.returnType,
                                          body.expr),
                              id.identifier, id.identifier),
                            NopOp))

\* compileIf that compiles the then-branch again when there is no else.
compileIfElseRepeatsThen(expression, m, parameters, functionMap) ==
  LET conditionNode == At(expression.expressions, 1)
      ifTrueNode == At(expression.expressions, 2)
      ifFalseNode == At(expression.expressions, 3)
      condition == compileExpression(conditionNode, m, parameters,
                                     functionMap)
  IN IF condition.error # NoError THEN condition
     ELSE LET ifTrue == compileExpression(ifTrueNode, condition.mod,
                                          parameters, functionMap)
          IN IF ifTrue.error # NoError THEN ifTrue
             ELSE LET ifFalse ==
                        compileExpression(
                          IF ifFalseNode # Undefined THEN ifFalseNode
                          ELSE ifTrueNode,
                          ifTrue.mod, parameters, functionMap)
                  IN IF ifFalse.error # NoError THEN ifFalse
                     ELSE LET e == IfOp(condition.expr, ifTrue.expr,
                                        ifFalse.expr)
                          IN Ok(e, Built(ifFalse.mod, e))

compileIf(expression, m, parameters, functionMap) ==
  LET conditionNode == At(expression.expressions, 1)
      ifTrueNode == At(expression.expressions, 2)
      ifFalseNode == At(expression.expressions, 3)
      condition == compileExpression(conditionNode, m, parameters,
                                     functionMap)
  IN IF condition.error # NoError THEN condition
     ELSE LET ifTrue == compileExpression(ifTrueNode, condition.mod,
                                          parameters, functionMap)
          IN IF ifTrue.error # NoError THEN ifTrue
             ELSE LET ifFalse ==
                        IF ifFalseNode # Undefined
                          THEN compileExpression(ifFalseNode, ifTrue.mod,
                                                 parameters, functionMap)
                        ELSE Ok(NoOperand, ifTrue.mod)
                  IN IF ifFalse.error # NoError THEN ifFalse
                     ELSE LET e == IfOp(condition.expr, ifTrue.expr,
                                        ifFalse.expr)
                          IN Ok(e, Built(ifFalse.mod, e))

\* compile that registers the built-ins before it runs the pre-pass.
compileBuiltinsRegisteredFirst(block) ==
  LET first == registerStandardFunctions(NewModule, NewMap)
      generated == generateFunctionMap(block)
  IN IF generated.error # NoError
       THEN [error |-> generated.error, detail |-> generated.detail,
             mod |-> first.mod, functionMap |-> NewMap]
     ELSE LET std == registerStandardFunctions(NewModule, generated.map)
              r == compileExpression(block, std.mod, NewMap, std.map)
          IN [error |-> r.error, detail |-> r.detail, mod |-> r.mod,
              functionMap |-> std.map]

\* compile that compiles the root block with the map of the pre-pass alone
\* and enters the built-ins into the map afterwards.
compileBuiltinsEnteredLast(block) ==
  LET generated == generateFunctionMap(block) IN
    IF generated.error # NoError
      THEN [error |-> generated.error, detail |-> generated.detail,
            mod |-> NewModule, functionMap |-> NewMap]
    ELSE LET std == registerStandardFunctions(NewModule, generated.map)
             r == compileExpression(block, std.mod, NewMap, generated.map)
         IN [error |-> r.error, detail |-> r.detail, mod |-> r.mod,
             functionMap |-> std.map]

\* compile: the function map of the whole program, the built-ins, then the
\* root block with no parameters.
compile(block) ==
  LET generated == generateFunctionMap(block) IN
    IF generated.error # NoError
      THEN [error |-> generated.error, detail |-> generated.detail,
            mod |-> NewModule, functionMap |-> NewMap]
    ELSE LET std == registerStandardFunctions(NewModule, generated.map)
             r == compileExpression(block, std.mod, NewMap, std.map)
         IN [error |-> r.error, detail |-> r.detail, mod |-> r.mod,
             functionMap |-> std.map]

(***************************************************************************)
(* AST nodes.                                                              *)
(***************************************************************************)
IntNode(value) == [type |-> "int", value |-> value]

FloatNode(value) == [type |-> "float", value |-> value]

IdentifierNode(identifier) ==
  [type |-> "identifier", identifier |-> identifier]

TypedIdentifierNode(identifier, typeIdentifier) ==
  [type |-> "typed-identifier", identifier |-> identifier,
   typeIdentifier |-> typeIdentifier]

BlockNode(expressions) == [type |-> "block", expressions |-> expressions]

SeqsUpTo(S, n) == UNION {[1..k -> S] : k \in 0..n}

(***************************************************************************)
(* Source texts: every text of at most MaxLen characters over Alphabet,    *)
(* and the texts the documentation uses.                                   *)
(***************************************************************************)
Alphabet == {"(", ")", "[", "]", " ", "\r", "a", "1", ".", ":", "@", "-"}

\* The source text of the fib example.
FibSource ==
  << "(", "f", "n", " ", "f", "i", "b", ":", "i", "3", "2", " ", "[", "v",
     "a", "l", ":", "i", "3", "2", "]", " ", "(", "i", "f", " ", "(", "l",
     "t", "_", "i", "3", "2", " ", "v", "a", "l", " ", "2", ")", " ", "v",
     "a", "l", " ", "(", "a", "d", "d", "_", "i", "3", "2", " ", "(", "f",
     "i", "b", " ", "(", "s", "u", "b", "_", "i", "3", "2", " ", "v", "a",
     "l", " ", "1", ")", ")", " ", "(", "f", "i", "b", " ", "(", "s", "u",
     "b", "_", "i", "3", "2", " ", "v", "a", "l", " ", "2", ")", ")", ")",
     ")", ")" >>

ExampleInputs ==
  { <<"(", "a", "d", "d", " ", "1", " ", "2", ")">>,
    <<"a", ":", "b", ":", "c">>,
    <<"\t", "(", "a", ")", "\n">>,
    <<"(", "a", "\n", "\t", "1", ")">>,
    <<"(", "a", ")", "\r", "\n", "(", "b", ")">>,
    <<"0", "1", "0">>,
    <<"0", "1", ".", "5", "0">>,
    <<"1", ".", "5">>,
    <<"_", "a", "-", "1", ":", "i", "3", "2">>,
    <<"(", "f", "n", " ", "f", ":", "i", "3", "2", " ", "[", "a", ":",
      "i", "3", "2", "]", " ", "a", ")">>,
    <<"(", "(", "a", ")", "[", "1", "]", ")">>,
    <<"(", "a", ")", "(", "b", ")">>,
    FibSource }

Inputs == SeqsUpTo(Alphabet, MaxLen) \cup ExampleInputs

(***************************************************************************)
(* Token arrays: every array of at most MaxTokens tokens over              *)
(* TokenVocabulary, and the tokens of `(add 1 2)'.                         *)
(***************************************************************************)
BracketToken(char) == [type |-> "bracket", value |-> <<char>>]

TokenVocabulary ==
  { BracketToken("("), BracketToken(")"), BracketToken("["),
    BracketToken("]"),
    [type |-> "int", value |-> 1],
    [type |-> "float", value |-> [num |-> 15, den |-> 10]],
    [type |-> "identifier", value |-> <<"a">>],
    [type |-> "typed-identifier", value |-> <<"a", ":", "b">>] }

AddTokens ==
  << BracketToken("("), [type |-> "identifier", value |-> <<"a", "d", "d">>],
     [type |-> "int", value |-> 1], [type |-> "int", value |-> 2],
     BracketToken(")") >>

ExampleTokens ==
  { AddTokens,
    AddTokens \o AddTokens,
    << BracketToken("("), [type |-> "identifier", value |-> <<"a">>],
       BracketToken(")"), BracketToken("["),
       [type |-> "typed-identifier", value |-> <<"a", ":", "b">>],
       BracketToken("]") >>,
    << BracketToken("("), [type |-> "identifier", value |-> <<"a">>],
       BracketToken("["), [type |-> "int", value |-> 1],
       BracketToken("("),
       [type |-> "typed-identifier", value |-> <<"a", ":", "b">>],
       BracketToken(")"), BracketToken("]"),
       [type |-> "float", value |-> [num |-> 15, den |-> 10]],
       BracketToken(")") >> }

TokenArrays == SeqsUpTo(TokenVocabulary, MaxTokens) \cup ExampleTokens

(***************************************************************************)
(* Programs given to compile: root blocks as parse builds them (every      *)
(* element of the root is a block).  DefinitionPrograms holds one          *)
(* definition with every parameter list of at most MaxParams elements;     *)
(* ReferencePrograms holds at most MaxForms top-level forms that call and  *)
(* define f, g and h at every position a block can sit.                    *)
(***************************************************************************)
fName == <<"f">>

gName == <<"g">>

hName == <<"h">>

aName == <<"a">>

bName == <<"b">>

intName == <<"i", "n", "t">>

add_i32 == <<"a", "d", "d", "_", "i", "3", "2">>

sub_i32 == <<"s", "u", "b", "_", "i", "3", "2">>

lt_i32 == <<"l", "t", "_", "i", "3", "2">>

Fn == IdentifierNode(fnName)

If == IdentifierNode(ifName)

Int1 == IntNode(1)

Def(name, params, body) == BlockNode(<<Fn, name, BlockNode(params)>> \o body)

Call1(name, arg) == BlockNode(<<IdentifierNode(name), arg>>)

ParameterPool ==
  { TypedIdentifierNode(aName, i32Name), TypedIdentifierNode(aName, f32Name),
    TypedIdentifierNode(bName, i32Name), TypedIdentifierNode(bName, f32Name),
    TypedIdentifierNode(aName, intName), IdentifierNode(aName), Int1 }

DefinitionBodies ==
  { <<>>, <<Int1>>, <<IdentifierNode(aName)>>,
    <<IdentifierNode(aName), IdentifierNode(bName)>>,
    <<Int1, IdentifierNode(aName), IdentifierNode(bName)>>,
    <<Int1, IdentifierNode(bName), IdentifierNode(aName)>> }

DefinitionPrograms ==
  { BlockNode(<<Def(TypedIdentifierNode(fName, i32Name), params, body)>>) :
      params \in SeqsUpTo(ParameterPool, MaxParams),
      body \in DefinitionBodies }

\* Definitions of g, nested in other forms.
InnerG == Def(TypedIdentifierNode(gName, f32Name), <<>>, <<Int1>>)

InnerGCallsF ==
  Def(TypedIdentifierNode(gName, f32Name),
      <<TypedIdentifierNode(bName, f32Name)>>,
      <<Call1(fName, IdentifierNode(bName))>>)

CallForms ==
  { Call1(fName, Int1), Call1(gName, Int1), Call1(hName, Int1),
    BlockNode(<<IdentifierNode(add_i32), Int1, IntNode(2)>>),
    Call1(fName, Call1(gName, Int1)),
    Call1(fName, InnerG),
    BlockNode(<<If, Int1, Call1(gName, Int1)>>),
    BlockNode(<<If, Int1, Int1, InnerG>>),
    BlockNode(<<If, Call1(fName, Int1), Int1, Int1>>),
    BlockNode(<<Call1(gName, Int1)>>),
    BlockNode(<<InnerG>>),
    BlockNode(<<>>),
    BlockNode(<<IdentifierNode(fName)>>),
    BlockNode(<<Int1, Int1>>),
    BlockNode(<<TypedIdentifierNode(aName, i32Name), Int1>>) }

ReferenceBodies ==
  { <<>>, <<Int1>>, <<Call1(fName, Int1)>>, <<Call1(gName, Int1)>>,
    <<InnerG>>, <<InnerG, Call1(gName, Int1)>>, <<InnerGCallsF>> }

WellFormedDefinitions ==
  { Def(name, params, body) :
      name \in { TypedIdentifierNode(fName, i32Name),
                 TypedIdentifierNode(gName, f32Name) },
      params \in { <<>>, <<TypedIdentifierNode(aName, i32Name)>> },
      body \in ReferenceBodies }

\* Definitions with a block in the name or parameter-list slot, with a body
\* that itself begins with `fn', and definitions of the wrong shape.
OddDefinitions ==
  { Def(TypedIdentifierNode(fName, i32Name), <<InnerG>>, <<Int1>>),
    BlockNode(<<Fn, InnerG, BlockNode(<<>>), Int1>>),
    BlockNode(<<Fn, TypedIdentifierNode(fName, i32Name), BlockNode(<<>>),
                Fn, TypedIdentifierNode(gName, f32Name), BlockNode(<<>>),
                Int1>>),
    BlockNode(<<Fn, TypedIdentifierNode(fName, i32Name), BlockNode(<<>>),
                Fn, TypedIdentifierNode(hName, i32Name), InnerG, Int1>>),
    BlockNode(<<Fn, IdentifierNode(fName)>>),
    BlockNode(<<Fn, TypedIdentifierNode(fName, i32Name)>>),
    BlockNode(<<Fn, TypedIdentifierNode(fName, i32Name), Int1>>),
    Def(TypedIdentifierNode(fName, intName), <<>>, <<Int1>>),
    Def(TypedIdentifierNode(fnName, i32Name), <<>>, <<Int1>>),
    Def(TypedIdentifierNode(add_i32, f32Name), <<>>, <<Int1>>) }

TopForms == CallForms \cup WellFormedDefinitions \cup OddDefinitions

ReferencePrograms == { BlockNode(forms) : forms \in SeqsUpTo(TopForms, MaxForms) }

\* (fn fib:i32 [val:i32]
\*   (if (lt_i32 val 2) val
\*       (add_i32 (fib (sub_i32 val 1)) (fib (sub_i32 val 2)))))
fibName == <<"f", "i", "b">>

valName == <<"v", "a", "l">>

FibCall(n) ==
  Call1(fibName,
        BlockNode(<<IdentifierNode(sub_i32), IdentifierNode(valName),
                    IntNode(n)>>))

FibDefinition ==
  Def(TypedIdentifierNode(fibName, i32Name),
      <<TypedIdentifierNode(valName, i32Name)>>,
      << BlockNode(<<If,
           BlockNode(<<IdentifierNode(lt_i32), IdentifierNode(valName),
                       IntNode(2)>>),
           IdentifierNode(valName),
           BlockNode(<<IdentifierNode(add_i32), FibCall(1), FibCall(2)>>)>>)
      >>)

\* Scopes: f with a nested definition of g whose body is the identifier x,
\* followed by the identifier y; and g at top level followed by y.
ScopeParameterLists ==
  { <<>>,
    <<TypedIdentifierNode(aName, i32Name)>>,
    <<TypedIdentifierNode(aName, f32Name)>>,
    <<TypedIdentifierNode(bName, f32Name)>>,
    <<TypedIdentifierNode(bName, i32Name),
      TypedIdentifierNode(aName, i32Name)>> }

NestedScopeProgram(outer, inner, x, y) ==
  BlockNode(<<Def(TypedIdentifierNode(fName, i32Name), outer,
                  << Def(TypedIdentifierNode(gName, f32Name), inner,
                         <<IdentifierNode(x)>>),
                     BlockNode(<<IdentifierNode(y)>>) >>)>>)

SiblingScopeProgram(inner, x, y) ==
  BlockNode(<< Def(TypedIdentifierNode(gName, f32Name), inner,
                   <<IdentifierNode(x)>>),
               BlockNode(<<IdentifierNode(y)>>) >>)

ScopePrograms ==
  { NestedScopeProgram(outer, inner, x, y) :
      outer \in ScopeParameterLists, inner \in ScopeParameterLists,
      x \in {aName, bName}, y \in {aName, bName} }
  \cup { SiblingScopeProgram(inner, x, y) :
           inner \in ScopeParameterLists,
           x \in {aName, bName}, y \in {aName, bName} }

\* Conditionals with up to four literal elements after `if'.
IfPrograms ==
  { BlockNode(<<BlockNode(<<If>> \o operands)>>) :
      operands \in SeqsUpTo({IntNode(1), IntNode(2), IntNode(3)}, 4) }

\* A definition as the fourth element after `if'.
AfterElse(definition) ==
  BlockNode(<<BlockNode(<<If, Int1, Int1, Int1, definition>>)>>)

\* (fn if:i32 [a:i32 b:i32] a) and (fn fn:i32 [] 1), each followed or
\* preceded by a block headed by the name it defines.
IfDefinition ==
  Def(TypedIdentifierNode(ifName, i32Name),
      <<TypedIdentifierNode(aName, i32Name),
        TypedIdentifierNode(bName, i32Name)>>,
      <<IdentifierNode(aName)>>)

FnDefinition == Def(TypedIdentifierNode(fnName, i32Name), <<>>, <<Int1>>)

ShadowPrograms ==
  { BlockNode(<<IfDefinition, BlockNode(<<If, Int1, IntNode(2)>>)>>),
    BlockNode(<<BlockNode(<<If, Int1, IntNode(2)>>), IfDefinition>>),
    BlockNode(<<IfDefinition, BlockNode(<<If, Int1>>)>>),
    BlockNode(<<FnDefinition, BlockNode(<<Fn, Int1>>)>>),
    BlockNode(<<FnDefinition, BlockNode(<<Fn, Int1, IntNode(2)>>)>>),
    BlockNode(<<FnDefinition,
                Def(TypedIdentifierNode(gName, i32Name), <<>>,
                    <<BlockNode(<<Fn, Int1>>)>>)>>) }

\* Groupings: one top-level block of at most MaxItems literals and literal
\* blocks.
GroupItems ==
  { IntNode(1), IntNode(2), BlockNode(<<>>), BlockNode(<<IntNode(3)>>),
    BlockNode(<<IntNode(1), IntNode(2)>>) }

GroupPrograms ==
  { BlockNode(<<BlockNode(items)>>) : items \in SeqsUpTo(GroupItems, MaxItems) }

\* (fn f:i32 [(fn g)] 1): a fn-headed block without a typed name, inside a
\* parameter list.
HeadlessInList ==
  Def(TypedIdentifierNode(fName, i32Name),
      <<BlockNode(<<Fn, IdentifierNode(gName)>>)>>, <<Int1>>)

\* (fn f:i32 [a:i32 b:i32] body) for bodies that begin with an identifier.
HeadedBodies ==
  { <<If, Int1, IdentifierNode(aName), IdentifierNode(bName)>>,
    <<If, Int1, IdentifierNode(aName)>>,
    <<If>>,
    <<IdentifierNode(add_i32), IdentifierNode(aName), IdentifierNode(bName)>>,
    <<IdentifierNode(add_i32)>>,
    <<IdentifierNode(fName), IdentifierNode(aName), IdentifierNode(bName)>>,
    <<IdentifierNode(gName), Int1>>,
    <<IdentifierNode(aName), Int1>>,
    <<Fn, TypedIdentifierNode(gName, f32Name), BlockNode(<<>>), Int1>>,
    <<Fn, TypedIdentifierNode(gName, f32Name), BlockNode(<<>>),
      IdentifierNode(aName)>> }

BodyPrograms ==
  { BlockNode(<<Def(TypedIdentifierNode(fName, i32Name),
                    <<TypedIdentifierNode(aName, i32Name),
                      TypedIdentifierNode(bName, i32Name)>>,
                    body)>>) : body \in HeadedBodies }

ExamplePrograms ==
  { BlockNode(<<FibDefinition>>),
    AfterElse(Def(TypedIdentifierNode(gName, i32Name),
                  <<TypedIdentifierNode(aName, intName)>>, <<Int1>>)),
    AfterElse(Def(TypedIdentifierNode(gName, i32Name),
                  <<IdentifierNode(aName)>>, <<Int1>>)),
    AfterElse(Def(TypedIdentifierNode(gName, intName), <<>>, <<Int1>>)),
    AfterElse(InnerG),
    BlockNode(<<Def(TypedIdentifierNode(fName, i32Name), <<>>, <<Int1>>),
                Def(TypedIdentifierNode(fName, f32Name), <<>>, <<Int1>>)>>),
    BlockNode(<<Def(TypedIdentifierNode(fName, f32Name), <<>>,
                    <<Def(TypedIdentifierNode(fName, i32Name), <<>>,
                          <<Int1>>)>>)>>),
    BlockNode(<<BlockNode(<<IdentifierNode(gName), Int1, IntNode(2)>>),
                InnerG>>),
    BlockNode(<<Call1(gName, Int1),
                BlockNode(<<If, Int1, Int1, Int1, InnerG>>)>>),
    BlockNode(<<HeadlessInList>>),
    BlockNode(<<BlockNode(<<Fn, TypedIdentifierNode(hName, i32Name),
                            BlockNode(<<>>)>>
                          \o HeadlessInList.expressions)>>),
    AfterElse(HeadlessInList),
    BlockNode(<<Def(TypedIdentifierNode(<<"m", "a", "i", "n">>, i32Name),
                    <<>>, <<Call1(fibName, IntNode(15))>>),
                FibDefinition>>) }
  \cup ShadowPrograms

Programs ==
  DefinitionPrograms \cup ReferencePrograms \cup ScopePrograms
    \cup IfPrograms \cup GroupPrograms \cup BodyPrograms \cup ExamplePrograms

(***************************************************************************)
(* The pipeline of index.mts: lex, then parse, then compile.               *)
(***************************************************************************)
Idle ==
  /\ words = <<>>
  /\ tokens0 = <<>>
  /\ tokens = <<>>
  /\ trees = <<>>
  /\ ast = NoAst
  /\ error = NoError
  /\ detail = NoDetail
  /\ mod = NewModule
  /\ fmap = NewMap

Init == pc = "lex" /\ input \in Inputs /\ Idle

Lex ==
  /\ pc = "lex"
  /\ LET r == lex(input) IN
       /\ words' = r.words
       /\ tokens0' = r.tokens
       /\ tokens' = r.tokens
       /\ error' = r.error
       /\ detail' = IF r.error = NoError THEN NoDetail
                    ELSE r.words[Len(r.words)]
       /\ pc' = IF r.error = NoError THEN "parse" ELSE "failed"
  /\ UNCHANGED <<input, trees, ast, mod, fmap>>

Parse ==
  /\ pc = "parse"
  /\ LET r == parse(tokens) IN
       /\ tokens' = r.tokens
       /\ trees' = r.trees
       /\ ast' = r.ast
       /\ error' = r.error
       /\ pc' = IF r.error = NoError THEN "compile" ELSE "failed"
  /\ UNCHANGED <<input, words, tokens0, detail, mod, fmap>>

Compile ==
  /\ pc = "compile"
  /\ LET r == compile(ast) IN
       /\ mod' = r.mod
       /\ fmap' = r.functionMap
       /\ error' = r.error
       /\ detail' = r.detail
       /\ pc' = IF r.error = NoError THEN "done" ELSE "failed"
  /\ UNCHANGED <<input, words, tokens0, tokens, trees, ast>>

Next == Lex \/ Parse \/ Compile

Spec == Init /\ [][Next]_vars

\* parse applied to every token array.
InitParse ==
  /\ pc = "parse"
  /\ input = <<>>
  /\ words = <<>>
  /\ tokens0 \in TokenArrays
  /\ tokens = tokens0
  /\ trees = <<>>
  /\ ast = NoAst
  /\ error = NoError
  /\ detail = NoDetail
  /\ mod = NewModule
  /\ fmap = NewMap

NextParse == Parse

SpecParse == InitParse /\ [][NextParse]_vars

\* compile applied to every program.
InitCompile ==
  /\ pc = "compile"
  /\ input = <<>>
  /\ words = <<>>
  /\ tokens0 = <<>>
  /\ tokens = <<>>
  /\ trees = <<>>
  /\ ast \in Programs
  /\ error = NoError
  /\ detail = NoDetail
  /\ mod = NewModule
  /\ fmap = NewMap

NextCompile == Compile

SpecCompile == InitCompile /\ [][NextCompile]_vars

(***************************************************************************)
(* Properties of parse, stated over the token array given to it.           *)
(***************************************************************************)
IsOpening(token) ==
  token.type = "bracket" /\ token.value \in {<<"(">>, <<"[">>}

IsClosing(token) ==
  token.type = "bracket" /\ token.value \in {<<")">>, <<"]">>}

IsLeaf(token) == token.type # "bracket"

CountWhere(ts, Test(_)) == Cardinality({i \in 1..Len(ts) : Test(ts[i])})

Parsed == pc \in {"compile", "done"} /\ error = NoError

ParseFailed ==
  /\ pc = "failed"
  /\ error \in {ExpectedBracket, ExpectedLeftBracket, UnrecognizedExpression}

\* The index of the closing bracket that ends the group opened just before
\* index i, at nesting depth `depth' inside it; Len(ts) + 1 if the array
\* ends first.
RECURSIVE GroupEnd(_, _, _)
GroupEnd(ts, i, depth) ==
  IF i > Len(ts) THEN i
  ELSE IF IsOpening(ts[i]) THEN GroupEnd(ts, i + 1, depth + 1)
  ELSE IF IsClosing(ts[i])
    THEN IF depth = 0 THEN i ELSE GroupEnd(ts, i + 1, depth - 1)
  ELSE GroupEnd(ts, i + 1, depth)

\* Some top-level group of ts, the one that would start at index i or a
\* later one, starts with a token that is no opening bracket.
RECURSIVE BadGroupStart(_, _)
BadGroupStart(ts, i) ==
  /\ i <= Len(ts)
  /\ \/ ~IsOpening(ts[i])
     \/ BadGroupStart(ts, GroupEnd(ts, i + 1, 0) + 1)

\* C3: parse fails whenever the token array ends while a bracket group is
\* still open (more opening than closing brackets); it never returns an AST
\* for an unterminated group.
C3_UnterminatedGroupFails ==
  Parsed => CountWhere(tokens0, IsOpening) <= CountWhere(tokens0, IsClosing)

\* C4: parse fails, returning no AST, whenever the first remaining token at
\* the start of a top-level group is not an opening bracket (a leaf token or
\* a closing bracket that closes no group).
C4_BadGroupStartFails ==
  (pc # "parse" /\ tokens0 # <<>> /\ BadGroupStart(tokens0, 1))
    => /\ pc = "failed"
       /\ error \in {ExpectedBracket, ExpectedLeftBracket}
       /\ ast = NoAst

\* A surplus closing bracket after a complete group has made parse throw.
C4_Witness ==
  /\ ParseFailed
  /\ Len(trees) >= 1
  /\ IsClosing(tokens[1])
  /\ error = ExpectedLeftBracket

\* The non-bracket tokens of a token array, in order.
RECURSIVE Leaves(_)
Leaves(ts) ==
  IF ts = <<>> THEN <<>>
  ELSE IF IsLeaf(Head(ts)) THEN <<Head(ts)>> \o Leaves(Tail(ts))
  ELSE Leaves(Tail(ts))

\* The tokens of a sequence of token-tree items, depth first, left to right.
RECURSIVE Flatten(_)
Flatten(items) ==
  IF items = <<>> THEN <<>>
  ELSE IF Head(items).type = "tree"
    THEN Flatten(Head(items).items) \o Flatten(Tail(items))
  ELSE <<Head(items)>> \o Flatten(Tail(items))

\* C8: flattening the trees parse built, depth first and left to right,
\* yields exactly the non-bracket tokens of the input in their order; no
\* bracket token is in a tree.
C8_FlattenRoundTrip ==
  Parsed =>
    /\ Flatten(trees) = Leaves(tokens0)
    /\ \A i \in 1..Len(Flatten(trees)) : Flatten(trees)[i].type # "bracket"

\* A balanced array with a nested group and leaves on both levels was parsed.
C8_Witness ==
  /\ Parsed
  /\ CountWhere(tokens0, IsOpening) = CountWhere(tokens0, IsClosing)
  /\ \E i \in 1..Len(trees) :
       \E j \in 1..Len(trees[i].items) :
         /\ trees[i].items[j].type = "tree"
         /\ trees[i].items[j].items # <<>>
         /\ \E k \in 1..Len(trees[i].items) : trees[i].items[k].type # "tree"

\* The same-direction bracket of the other family.
OtherFamily(token) ==
  [type |-> "bracket",
   value |-> CASE token.value = <<"(">> -> <<"[">>
               [] token.value = <<"[">> -> <<"(">>
               [] token.value = <<")">> -> <<"]">>
               [] token.value = <<"]">> -> <<")">>]

SwapFamily(ts, i) == [ts EXCEPT ![i] = OtherFamily(ts[i])]

\* C9: replacing any bracket token by the same-direction bracket of the
\* other family leaves the outcome of parse unchanged: the same AST, or a
\* failure in the same cases.
C9_BracketFamiliesInterchangeable ==
  pc # "parse" =>
    \A i \in 1..Len(tokens0) :
      tokens0[i].type = "bracket" =>
        LET other == parse(SwapFamily(tokens0, i)) IN
          /\ (other.error = NoError) = (error = NoError)
          /\ other.error = NoError => other.ast = ast

\* A group opened by one family and closed by the other was parsed.
C9_Witness ==
  /\ Parsed
  /\ Len(tokens0) = 3
  /\ tokens0[1].type = "bracket" /\ tokens0[1].value = <<"(">>
  /\ tokens0[2].type = "identifier"
  /\ tokens0[3].type = "bracket" /\ tokens0[3].value = <<"]">>
  /\ ast = BlockNode(<<BlockNode(<<IdentifierNode(tokens0[2].value)>>)>>)

\* The AST the documentation describes, built from the token array by
\* matching brackets: the node of a leaf token, by kind.
LeafNode(token) ==
  CASE token.type = "int" -> IntNode(token.value)
    [] token.type = "float" -> FloatNode(token.value)
    [] token.type = "identifier" -> IdentifierNode(token.value)
    [] token.type = "typed-identifier" ->
         LET colon == CHOOSE i \in 1..Len(token.value) : token.value[i] = ":"
         IN TypedIdentifierNode(SubSeq(token.value, 1, colon - 1),
                                SubSeq(token.value, colon + 1,
                                       Len(token.value)))

\* The nodes of the tokens lo..hi, which lie inside one group.
RECURSIVE GroupNodes(_, _, _)
GroupNodes(ts, lo, hi) ==
  IF lo > hi THEN <<>>
  ELSE IF IsOpening(ts[lo])
    THEN LET end == GroupEnd(ts, lo + 1, 0) IN
      <<BlockNode(GroupNodes(ts, lo + 1, end - 1))>>
        \o GroupNodes(ts, end + 1, hi)
  ELSE <<LeafNode(ts[lo])>> \o GroupNodes(ts, lo + 1, hi)

\* One block per top-level group, from the group that starts at index i on.
RECURSIVE TopLevelBlocks(_, _)
TopLevelBlocks(ts, i) ==
  IF i > Len(ts) THEN <<>>
  ELSE LET end == GroupEnd(ts, i + 1, 0) IN
    <<BlockNode(GroupNodes(ts, i + 1, end - 1))>> \o TopLevelBlocks(ts, end + 1)

AddAst ==
  BlockNode(<<BlockNode(<<IdentifierNode(<<"a", "d", "d">>), IntNode(1),
                          IntNode(2)>>)>>)

\* C10: parse returns a root block with one child block per top-level group,
\* in source order; a nested group is a block at the same position and a leaf
\* maps by kind (int and float keep their value, an identifier its name, a
\* typed identifier n:t becomes name n and type name t).  The tokens of
\* `(add 1 2)' yield the root block of the block [add, 1, 2].
C10_AstMirrorsGroups ==
  Parsed =>
    /\ ast = BlockNode(TopLevelBlocks(tokens0, 1))
    /\ tokens0 = AddTokens => ast = AddAst

\* Two top-level groups were parsed, with a typed identifier, a literal and a
\* nested group among their elements.
C10_Witness ==
  /\ Parsed
  /\ Len(ast.expressions) = 2
  /\ \E i \in 1..2 : \E j \in 1..Len(ast.expressions[i].expressions) :
       /\ ast.expressions[i].expressions[j].type = "typed-identifier"
       /\ ast.expressions[i].expressions[j].identifier = <<"a">>
       /\ ast.expressions[i].expressions[j].typeIdentifier = <<"b">>
  /\ \E i \in 1..2 : \E j \in 1..Len(ast.expressions[i].expressions) :
       ast.expressions[i].expressions[j].type \in {"int", "float", "block"}

(***************************************************************************)
(* Properties of lex, stated over the source text given to it.             *)
(***************************************************************************)
Lexed == pc # "lex" /\ error # UnknownToken

LexFailed == pc = "failed" /\ error = UnknownToken

\* The sequences of ss joined in order: the first half, then the rest.
RECURSIVE Concat(_)
Concat(ss) ==
  IF ss = <<>> THEN <<>>
  ELSE IF Len(ss) = 1 THEN ss[1]
  ELSE Concat(SubSeq(ss, 1, Len(ss) \div 2))
         \o Concat(SubSeq(ss, (Len(ss) \div 2) + 1, Len(ss)))

NotWhitespace(char) == char \notin {" ", "\n", "\t"}

\* The text without its spaces, newlines and tabs.
WithoutWhitespace(text) == SelectSeq(text, NotWhitespace)

HasBracket(text) == \E i \in 1..Len(text) : text[i] \in {"(", ")", "[", "]"}

AddInput == <<"(", "a", "d", "d", " ", "1", " ", "2", ")">>

\* C5: each bracket character is lexed as its own one-character bracket
\* token: no other token's text contains a bracket, there is one bracket
\* token per bracket character of the text, and `(add 1 2)' lexes to exactly
\* the five tokens (, add, 1, 2, ).
C5_BracketsAreTheirOwnTokens ==
  Lexed =>
    /\ Len(tokens0) = Len(words)
    /\ \A i \in 1..Len(words) :
         /\ tokens0[i].type = "bracket" =>
              /\ Len(words[i]) = 1
              /\ tokens0[i].value = words[i]
              /\ HasBracket(words[i])
         /\ tokens0[i].type # "bracket" => ~HasBracket(words[i])
    /\ Cardinality({i \in 1..Len(tokens0) : tokens0[i].type = "bracket"})
         = Cardinality({i \in 1..Len(input) : HasBracket(<<input[i]>>)})
    /\ input = AddInput => tokens0 = AddTokens

\* A bracket ended a started word, and two brackets stood side by side.
C5_Witness ==
  /\ Lexed
  /\ \E i \in 1..(Len(input) - 1) :
       input[i] \in {"a", "1"} /\ HasBracket(<<input[i + 1]>>)
  /\ \E i \in 1..(Len(input) - 1) :
       HasBracket(<<input[i]>>) /\ HasBracket(<<input[i + 1]>>)

\* The token shapes of the source grammar, first match first.
ShapeDigits(text) ==
  text # <<>> /\ \A i \in DOMAIN text : text[i] \in Digits

ShapeName(text) ==
  /\ text # <<>>
  /\ text[1] \in Letters \cup {"_"}
  /\ \A i \in (DOMAIN text) \ {1} : text[i] \in Letters \cup Digits \cup {"_", "-"}

ShapeSplitBy(text, sep, Left(_), Right(_)) ==
  \E i \in DOMAIN text :
    /\ text[i] = sep
    /\ Left(SubSeq(text, 1, i - 1))
    /\ Right(SubSeq(text, i + 1, Len(text)))

KindOf(word) ==
  IF ShapeDigits(word) THEN "int"
  ELSE IF ShapeSplitBy(word, ".", ShapeDigits, ShapeDigits) THEN "float"
  ELSE IF word \in {<<"(">>, <<")">>, <<"[">>, <<"]">>} THEN "bracket"
  ELSE IF ShapeName(word) THEN "identifier"
  ELSE IF ShapeSplitBy(word, ":", ShapeName, ShapeName)
    THEN "typed-identifier"
  ELSE "none"

\* C6: lex succeeds exactly when every word it extracts has one of the five
\* token shapes, each token has the kind the grammar's first-match order
\* gives its word, and for any other word lex throws `Unknown token' and
\* returns no tokens.
C6_TokenKinds ==
  pc # "lex" =>
    /\ Lexed <=> \A i \in 1..Len(words) : KindOf(words[i]) # "none"
    /\ Lexed =>
         /\ Len(tokens0) = Len(words)
         /\ \A i \in 1..Len(words) : tokens0[i].type = KindOf(words[i])
    /\ ~Lexed =>
         /\ error = UnknownToken
         /\ tokens0 = <<>>
         /\ KindOf(words[Len(words)]) = "none"

\* Both outcomes: a text of a typed identifier and another token was lexed,
\* or a word of no shape after a good one made lex throw.
C6_Witness ==
  \/ /\ Lexed
     /\ Len(tokens0) = 2
     /\ \E i \in 1..2 : tokens0[i].type = "typed-identifier"
  \/ /\ LexFailed
     /\ Len(words) = 2
     /\ KindOf(words[1]) = "int"

\* C7: lex drops no character: when it succeeds, the texts of its tokens,
\* concatenated in order, are the input without its spaces, newlines and
\* tabs, wherever a character stands in the input.
C7_NoCharacterDropped ==
  Lexed => Concat(words) = WithoutWhitespace(input)

(***************************************************************************)
(* Properties of compile, stated over the program given to it.             *)
(***************************************************************************)
Compiled == pc = "done"

RECURSIVE AllBlocks(_)
AllBlocks(node) ==
  IF node.type = "block"
    THEN {node} \cup UNION {AllBlocks(node.expressions[i]) :
                              i \in 1..Len(node.expressions)}
  ELSE {}

IsNamedDefinition(elements) ==
  /\ Len(elements) >= 2
  /\ elements[1] = Fn
  /\ elements[2].type = "typed-identifier"

\* The names of the fn-headed blocks anywhere in the program.
AllDefinedNames(root) ==
  { b.expressions[2].identifier :
      b \in {x \in AllBlocks(root) : IsNamedDefinition(x.expressions)} }

\* The names of the definitions outside the name slot and the parameter
\* list of every definition, where a body that itself begins with `fn' is a
\* definition too.
RECURSIVE NamesOutsideSlots(_)
NamesOutsideSlots(elements) ==
  IF elements # <<>> /\ elements[1] = Fn
    THEN (IF IsNamedDefinition(elements) THEN {elements[2].identifier}
          ELSE {})
         \cup NamesOutsideSlots(SubSeq(elements, 4, Len(elements)))
  ELSE UNION { NamesOutsideSlots(elements[i].expressions) :
                 i \in {j \in 1..Len(elements) : elements[j].type = "block"} }

\* The functions the program defined: the registrations after the built-ins'.
UserFunctions ==
  { i \in 1..Len(mod) :
      /\ mod[i].call = "addFunction"
      /\ i > 5 * Len(StandardFunctions) }

CallsTo(name) ==
  { i \in 1..Len(mod) :
      /\ mod[i].call = "expression"
      /\ mod[i].expr.op = "call"
      /\ mod[i].expr.target = name }

SelfCallCompiled ==
  /\ Compiled
  /\ \E b \in AllBlocks(ast) :
       /\ IsNamedDefinition(b.expressions)
       /\ \E c \in AllBlocks(BlockNode(SubSeq(b.expressions, 4,
                                               Len(b.expressions)))) :
            /\ Len(c.expressions) > 1
            /\ c.expressions[1] = IdentifierNode(b.expressions[2].identifier)
  /\ \E i \in UserFunctions : CallsTo(mod[i].name) # {}

\* The backend types of a parameter list, in declared order.
DeclaredTypes(params) ==
  [k \in 1..Len(params) |->
     IF params[k].type # "typed-identifier" THEN "none"
     ELSE IF params[k].typeIdentifier = <<"i", "3", "2">> THEN "i32"
     ELSE IF params[k].typeIdentifier = <<"f", "3", "2">> THEN "f32"
     ELSE "none"]

\* The definitions of the program: the fn-headed blocks, and the bodies that
\* themselves begin with `fn'.
DefinitionForms(root) ==
  { SubSeq(b.expressions, 3 * k + 1, Len(b.expressions)) :
      b \in AllBlocks(root), k \in 0..2 }

\* C2: for every compiled definition, the parameter types registered with
\* the backend are the declared types of its parameters in declared order.
C2_ParameterTypesInDeclaredOrder ==
  Compiled =>
    \A i \in UserFunctions :
      \E d \in DefinitionForms(ast) :
        /\ IsNamedDefinition(d)
        /\ Len(d) >= 3 /\ d[3].type = "block"
        /\ d[2].identifier = mod[i].name
        /\ mod[i].params = DeclaredTypes(d[3].expressions)

(***************************************************************************)
(* Properties of one definition compiled alone: the program is the single  *)
(* form `(fn name:type [parameters] body...)'.                             *)
(***************************************************************************)
SoleDefinition ==
  /\ pc \in {"done", "failed"}
  /\ Len(ast.expressions) = 1
  /\ ast.expressions[1].type = "block"
  /\ IsNamedDefinition(ast.expressions[1].expressions)
  /\ Len(ast.expressions[1].expressions) >= 3
  /\ ast.expressions[1].expressions[3].type = "block"

SoleName == ast.expressions[1].expressions[2]

SoleParameters == ast.expressions[1].expressions[3].expressions

SoleBody ==
  SubSeq(ast.expressions[1].expressions, 4,
         Len(ast.expressions[1].expressions))

SupportedTypeName(name) == name \in {<<"i", "3", "2">>, <<"f", "3", "2">>}

\* The definition's return type and parameters are typed with i32 or f32.
SoleWellTyped ==
  /\ SupportedTypeName(SoleName.typeIdentifier)
  /\ \A k \in 1..Len(SoleParameters) :
       /\ SoleParameters[k].type = "typed-identifier"
       /\ SupportedTypeName(SoleParameters[k].typeIdentifier)

\* The body is a sequence grouping of literals and identifiers.
SolePlainBody ==
  /\ SoleBody # <<>>
  /\ Len(SoleBody) > 1 => SoleBody[1].type # "identifier"
  /\ \A j \in 1..Len(SoleBody) : SoleBody[j].type \in {"int", "identifier"}

ParameterNames == {SoleParameters[k].identifier : k \in 1..Len(SoleParameters)}

\* The registration of the sole definition.
SoleFunction == mod[CHOOSE i \in UserFunctions : TRUE]

\* The first body element that is an identifier naming no parameter.
UnboundElements ==
  { j \in 1..Len(SoleBody) :
      /\ SoleBody[j].type = "identifier"
      /\ SoleBody[j].identifier \notin ParameterNames }

FirstUnbound == CHOOSE j \in UnboundElements : \A i \in UnboundElements : j <= i

\* An unbound identifier in the body makes compile fail with `Unrecognized
\* identifier' naming it.
UnboundIdentifierFails ==
  (SoleDefinition /\ SoleWellTyped /\ SolePlainBody /\ UnboundElements # {})
    => /\ pc = "failed"
       /\ error = UnrecognizedIdentifier
       /\ detail = SoleBody[FirstUnbound].identifier

\* C11 as stated: in a function body a standalone identifier naming the k-th
\* declared parameter compiles to a read of slot k with that parameter's
\* declared type, and an identifier naming no parameter makes compile fail.
C11_IdentifierReadsItsSlot ==
  /\ UnboundIdentifierFails
  /\ (SoleDefinition /\ Compiled /\ SoleWellTyped /\ SolePlainBody) =>
       \A j \in 1..Len(SoleBody) :
         \A k \in 1..Len(SoleParameters) :
           (/\ SoleBody[j].type = "identifier"
            /\ SoleBody[j].identifier = SoleParameters[k].identifier)
             => SoleFunction.body.children[j] =
                  LocalGet(k - 1, DeclaredTypes(SoleParameters)[k])

\* The first parameter declared with the given name.
FirstNamed(name) ==
  CHOOSE k \in 1..Len(SoleParameters) :
    /\ SoleParameters[k].identifier = name
    /\ \A i \in 1..(k - 1) : SoleParameters[i].identifier # name

\* C11, amended: the identifier compiles to a read of the slot and declared
\* type of the first parameter declared with its name; an identifier naming
\* no parameter makes compile fail with `Unrecognized identifier'.
C11_IdentifierReadsFirstDeclaredSlot ==
  /\ UnboundIdentifierFails
  /\ (SoleDefinition /\ Compiled /\ SoleWellTyped /\ SolePlainBody) =>
       \A j \in 1..Len(SoleBody) :
         SoleBody[j].type = "identifier" =>
           LET k == FirstNamed(SoleBody[j].identifier) IN
             SoleFunction.body.children[j] =
               LocalGet(k - 1, DeclaredTypes(SoleParameters)[k])

\* A body read the second of two differently typed parameters.
C11_Witness ==
  /\ SoleDefinition /\ Compiled /\ SoleWellTyped /\ SolePlainBody
  /\ Len(SoleParameters) >= 2
  /\ SoleParameters[1].identifier # SoleParameters[2].identifier
  /\ SoleParameters[1].typeIdentifier # SoleParameters[2].typeIdentifier
  /\ \E j \in 1..Len(SoleBody) :
       /\ SoleBody[j] = IdentifierNode(SoleParameters[2].identifier)
       /\ SoleFunction.body.children[j].op = "local.get"
       /\ SoleFunction.body.children[j].index = 1

(***************************************************************************)
(* Scopes of parameters.                                                   *)
(***************************************************************************)
NamesOf(params) == {params[k].identifier : k \in 1..Len(params)}

\* The read of the parameter called `name' (names are distinct in params).
ReadOf(params, name) ==
  LET k == CHOOSE i \in 1..Len(params) : params[i].identifier = name
  IN LocalGet(k - 1, DeclaredTypes(params)[k])

RegistrationsOf(name) ==
  { i \in UserFunctions : mod[i].name = name }

\* The outcome for `(fn f:i32 outer (fn g:f32 inner x) (y))': x is resolved
\* in inner alone, y in outer alone.
NestedScopeOutcome(outer, inner, x, y) ==
  IF x \notin NamesOf(inner)
    THEN pc = "failed" /\ error = UnrecognizedIdentifier /\ detail = x
  ELSE IF y \notin NamesOf(outer)
    THEN pc = "failed" /\ error = UnrecognizedIdentifier /\ detail = y
  ELSE /\ Compiled
       /\ \A i \in RegistrationsOf(gName) :
            mod[i].body = BlockOp(<<ReadOf(inner, x)>>)
       /\ \A i \in RegistrationsOf(fName) :
            mod[i].body = BlockOp(<<NopOp, BlockOp(<<ReadOf(outer, y)>>)>>)
       /\ RegistrationsOf(gName) # {} /\ RegistrationsOf(fName) # {}

\* The outcome for `(fn g:f32 inner x) (y)': y stands at top level, where no
\* identifier is bound.
SiblingScopeOutcome(inner, x, y) ==
  /\ pc = "failed"
  /\ error = UnrecognizedIdentifier
  /\ detail = IF x \notin NamesOf(inner) THEN x ELSE y

\* C12: an identifier is resolved only against the parameters of the
\* innermost enclosing definition: the outer parameters are unbound inside
\* a nested body, the nested parameters are unbound after it, the
\* expressions after a nested definition see the outer table again, and at
\* top level nothing is bound.
C12_InnermostParametersOnly ==
  pc \in {"done", "failed"} =>
    /\ \A outer \in ScopeParameterLists, inner \in ScopeParameterLists :
         \A x \in {aName, bName}, y \in {aName, bName} :
           ast = NestedScopeProgram(outer, inner, x, y)
             => NestedScopeOutcome(outer, inner, x, y)
    /\ \A inner \in ScopeParameterLists :
         \A x \in {aName, bName}, y \in {aName, bName} :
           ast = SiblingScopeProgram(inner, x, y)
             => SiblingScopeOutcome(inner, x, y)

\* A nested body that names only an outer parameter was refused with the
\* outer parameter's name.
C12_Witness ==
  /\ pc = "failed"
  /\ error = UnrecognizedIdentifier
  /\ detail = aName
  /\ ast = NestedScopeProgram(<<TypedIdentifierNode(aName, i32Name)>>,
                              <<TypedIdentifierNode(bName, f32Name)>>,
                              aName, aName)

\* After a nested definition the outer parameter was read again.
OuterTableRestored ==
  /\ Compiled
  /\ ast = NestedScopeProgram(<<TypedIdentifierNode(aName, i32Name)>>,
                              <<TypedIdentifierNode(aName, f32Name)>>,
                              aName, aName)
  /\ \E i \in RegistrationsOf(fName) :
       mod[i].body = BlockOp(<<NopOp, BlockOp(<<LocalGet(0, "i32")>>)>>)
  /\ \E i \in RegistrationsOf(gName) :
       mod[i].body = BlockOp(<<LocalGet(0, "f32")>>)

(***************************************************************************)
(* The shape of the expression built for a node.                           *)
(***************************************************************************)
IsCallForm(node) ==
  /\ node.type = "block"
  /\ Len(node.expressions) > 1
  /\ node.expressions[1].type = "identifier"

\* The expression compile returned for the root block: the last one built.
RootExpression == mod[Len(mod)].expr

\* e is what the claim says is built for node: a definition yields a no-op,
\* a conditional an `if', an ordinary call a call of the head with one
\* operand per remaining element; any other block a grouping with one child
\* per element.
RECURSIVE BuiltAs(_, _)
BuiltAs(node, e) ==
  IF IsCallForm(node)
    THEN LET head == node.expressions[1].identifier IN
      IF head = fnName THEN e = NopOp
      ELSE IF head = ifName THEN e.op = "if"
      ELSE /\ e.op = "call"
           /\ e.target = head
           /\ Len(e.operands) = Len(node.expressions) - 1
           /\ \A j \in 1..Len(e.operands) :
                BuiltAs(node.expressions[j + 1], e.operands[j])
  ELSE IF node.type = "block"
    THEN /\ e.op = "block"
         /\ Len(e.children) = Len(node.expressions)
         /\ \A j \in 1..Len(e.children) :
              BuiltAs(node.expressions[j], e.children[j])
  ELSE IF node.type = "int" THEN e.op = "const"
  ELSE IF node.type = "identifier" THEN e.op = "local.get"
  ELSE FALSE

\* C13: a block is compiled as a call form (definition, conditional or
\* call) exactly when its first element is an identifier and it has more
\* than one element; every other block, a one-element block `(name)'
\* included, is compiled as a grouping of its children.
C13_CallFormIffIdentifierHeadAndMore ==
  /\ Compiled => BuiltAs(ast, RootExpression)
  /\ (pc \in {"done", "failed"} /\ Len(ast.expressions) = 1) =>
       LET form == ast.expressions[1].expressions IN
         /\ (Len(form) = 1 /\ form[1].type = "identifier")
              => /\ error = UnrecognizedIdentifier
                 /\ detail = form[1].identifier
         /\ (Len(form) > 1 /\ form[1].type = "typed-identifier")
              => /\ error = UnrecognizedExpression
                 /\ detail = "typed-identifier"

\* A definition (a call form) was compiled to a no-op and the one-element
\* block `(name)' after it to a grouping of one parameter read.
C13_Witness ==
  /\ Compiled
  /\ \E i \in RegistrationsOf(fName) :
       /\ mod[i].body.op = "block"
       /\ Len(mod[i].body.children) = 2
       /\ mod[i].body.children[1] = NopOp
       /\ mod[i].body.children[2].op = "block"
       /\ Len(mod[i].body.children[2].children) = 1
       /\ mod[i].body.children[2].children[1].op = "local.get"
  /\ BuiltAs(ast, RootExpression)

(***************************************************************************)
(* Ordinary calls.                                                         *)
(***************************************************************************)
RECURSIVE SumOver(_, _)
SumOver(counts, i) == IF i > Len(counts) THEN 0
                      ELSE counts[i] + SumOver(counts, i + 1)

\* The nodes compile goes on to from node: the body of a definition as one
\* block, elements 1 to 3 of a conditional, the arguments of a call, the
\* children of a grouping.
Visited(node) ==
  IF node.type # "block" THEN <<>>
  ELSE IF ~IsCallForm(node) THEN node.expressions
  ELSE IF node.expressions[1].identifier = fnName
    THEN <<BlockNode(SubSeq(node.expressions, 4, Len(node.expressions)))>>
  ELSE IF node.expressions[1].identifier = ifName
    THEN SubSeq(node.expressions, 2,
                IF Len(node.expressions) > 4 THEN 4
                ELSE Len(node.expressions))
  ELSE SubSeq(node.expressions, 2, Len(node.expressions))

\* The number of call forms headed by `name' that compile visits in node.
RECURSIVE CallFormCount(_, _)
CallFormCount(node, name) ==
  (IF IsCallForm(node) /\ node.expressions[1].identifier = name
     THEN 1 ELSE 0)
  + SumOver([j \in 1..Len(Visited(node)) |->
               CallFormCount(Visited(node)[j], name)], 1)

\* The first top-level form is an ordinary call, and the function map was
\* built.
FirstFormIsCall ==
  /\ pc \in {"done", "failed"}
  /\ fmap # NewMap
  /\ Len(ast.expressions) >= 1
  /\ IsCallForm(ast.expressions[1])
  /\ ast.expressions[1].expressions[1].identifier \notin {fnName, ifName}

FirstHead == ast.expressions[1].expressions[1].identifier

FirstArguments ==
  SubSeq(ast.expressions[1].expressions, 2,
         Len(ast.expressions[1].expressions))

\* C14: an ordinary call form compiles to exactly one backend call of its
\* head, with the compiled remaining elements as operands in source order
\* and the return type the function map records for the head; a head that is
\* not in the function map makes compile fail with `Function not found', and
\* no call is built.
C14_CallOfTheHead ==
  FirstFormIsCall =>
    IF FirstHead \notin DOMAIN fmap
      THEN /\ pc = "failed"
           /\ error = FunctionNotFound
           /\ detail = FirstHead
           /\ CallsTo(FirstHead) = {}
    ELSE Compiled =>
      LET e == RootExpression.children[1] IN
        /\ e.op = "call"
        /\ e.target = FirstHead
        /\ e.type = fmap[FirstHead].returnType
        /\ Len(e.operands) = Len(FirstArguments)
        /\ \A j \in 1..Len(e.operands) :
             /\ BuiltAs(FirstArguments[j], e.operands[j])
             /\ FirstArguments[j].type = "int"
                  => e.operands[j] = Const("i32", FirstArguments[j].value)
        /\ Cardinality(CallsTo(FirstHead)) = CallFormCount(ast, FirstHead)

\* A call with two different arguments of a function that a later form
\* defines to return f32 was compiled.
C14_Witness ==
  /\ FirstFormIsCall /\ Compiled
  /\ FirstHead = gName
  /\ RootExpression.children[1] =
       CallOp(gName, <<Const("i32", 1), Const("i32", 2)>>, "f32")

(***************************************************************************)
(* Conditionals.                                                           *)
(***************************************************************************)
\* The first top-level form is `(if c t ...)', and it was compiled.
FirstFormIsIf ==
  /\ Compiled
  /\ Len(ast.expressions) >= 1
  /\ IsCallForm(ast.expressions[1])
  /\ ast.expressions[1].expressions[1].identifier = ifName
  /\ Len(ast.expressions[1].expressions) >= 3

\* e is the compilation of node.
OperandOf(node, e) ==
  /\ BuiltAs(node, e)
  /\ node.type = "int" => e = Const("i32", node.value)

\* The expressions built by the program, after those of the built-ins.
ProgramExpressions ==
  { i \in 1..Len(mod) :
      i > Len(StandardRegistration.mod) /\ mod[i].call = "expression" }

\* C15: the operands of the backend conditional are the compilation of
\* element 1 as condition, of element 2 as then-branch and, exactly when
\* element 3 is present, of element 3 as else-branch; with no element 3 the
\* else operand is missing and the then-branch is not compiled twice.
C15_IfOperands ==
  FirstFormIsIf =>
    LET form == ast.expressions[1].expressions
        e == RootExpression.children[1]
    IN /\ e.op = "if"
       /\ OperandOf(form[2], e.condition)
       /\ OperandOf(form[3], e.ifTrue)
       /\ IF Len(form) >= 4 THEN OperandOf(form[4], e.ifFalse)
          ELSE e.ifFalse = NoOperand
       /\ (Len(ast.expressions) = 1
           /\ \A j \in 2..Len(form) : form[j].type = "int")
            => Cardinality(ProgramExpressions)
                 = (IF Len(form) >= 4 THEN 3 ELSE 2) + 2

\* `(if 1 2)' was compiled to a conditional without an else operand.
C15_Witness ==
  /\ FirstFormIsIf
  /\ ast = BlockNode(<<BlockNode(<<If, IntNode(1), IntNode(2)>>)>>)
  /\ RootExpression.children[1] =
       IfOp(Const("i32", 1), Const("i32", 2), NoOperand)

\* `(if 1 2 3)' was compiled to a conditional with all three operands.
ElseCompiled ==
  /\ FirstFormIsIf
  /\ RootExpression.children[1] =
       IfOp(Const("i32", 1), Const("i32", 2), Const("i32", 3))

(***************************************************************************)
(* Registration and export of definitions.                                 *)
(***************************************************************************)
Exports == { i \in 1..Len(mod) : mod[i].call = "addFunctionExport" }

BuiltinFunctions ==
  { i \in 1..Len(mod) :
      /\ mod[i].call = "addFunction"
      /\ i <= Len(StandardRegistration.mod) }

\* The declared name and backend return type of some definition of the
\* program.
Declares(name, results) ==
  \E d \in DefinitionForms(ast) :
    /\ IsNamedDefinition(d)
    /\ d[2].identifier = name
    /\ DeclaredTypes(<<d[2]>>) = <<results>>

\* C16: compiling a definition first compiles its body (the elements from
\* index 3 on), then registers the function once under its declared name and
\* return type with that body, then exports it under the same name, and
\* yields a no-op; every compiled definition, top-level or nested, is
\* exported, and no built-in is.
C16_BodyThenRegisterThenExport ==
  /\ \A i \in UserFunctions :
       /\ mod[i - 1].call = "expression"
       /\ mod[i - 1].expr = mod[i].body
       /\ Declares(mod[i].name, mod[i].results)
       /\ i + 2 <= Len(mod)
       /\ mod[i + 1] = [call |-> "addFunctionExport",
                        internalName |-> mod[i].name,
                        externalName |-> mod[i].name]
       /\ mod[i + 2] = [call |-> "expression", expr |-> NopOp]
  /\ \A i \in Exports : i - 1 \in UserFunctions
  /\ \A i \in BuiltinFunctions :
       i + 1 <= Len(mod) => mod[i + 1].call # "addFunctionExport"
  /\ Compiled =>
       /\ Cardinality(UserFunctions) = CallFormCount(ast, fnName)
       /\ Cardinality(BuiltinFunctions) = Len(StandardFunctions)
  /\ (Compiled /\ SoleDefinition) =>
       LET last == CHOOSE i \in UserFunctions :
                     \A j \in UserFunctions : j <= i
       IN /\ mod[last].name = SoleName.identifier
          /\ BuiltAs(BlockNode(SoleBody), mod[last].body)
          /\ RootExpression = BlockOp(<<NopOp>>)

\* A definition nested in the body of another was registered and exported
\* before the enclosing one.
C16_Witness ==
  /\ Compiled /\ SoleDefinition
  /\ \E i \in RegistrationsOf(gName) :
       \E j \in RegistrationsOf(fName) :
         /\ i < j
         /\ i + 1 \in Exports
         /\ j + 1 \in Exports
         /\ mod[j].body.children[1] = NopOp

(***************************************************************************)
(* Types of definitions.                                                   *)
(***************************************************************************)
\* The nodes compile reaches from node.
RECURSIVE VisitedNodes(_)
VisitedNodes(node) ==
  {node} \cup UNION { VisitedNodes(Visited(node)[j]) :
                        j \in 1..Len(Visited(node)) }

\* The definitions compile reaches.
VisitedDefinitions ==
  { n.expressions : n \in { v \in VisitedNodes(ast) :
                              /\ IsCallForm(v)
                              /\ v.expressions[1].identifier = fnName } }

\* The definitions the scan of generateFunctionMap reaches.
RECURSIVE ScannedDefinitions(_)
ScannedDefinitions(elements) ==
  IF elements # <<>> /\ elements[1] = Fn
    THEN {elements}
         \cup ScannedDefinitions(SubSeq(elements, 4, Len(elements)))
  ELSE UNION { ScannedDefinitions(elements[i].expressions) :
                 i \in {j \in 1..Len(elements) : elements[j].type = "block"} }

HasParameterList(d) == Len(d) >= 3 /\ d[3].type = "block"

UnsupportedReturnType(d) ==
  IsNamedDefinition(d) /\ ~SupportedTypeName(d[2].typeIdentifier)

UnsupportedParameterType(d) ==
  /\ HasParameterList(d)
  /\ \E k \in 1..Len(d[3].expressions) :
       /\ d[3].expressions[k].type = "typed-identifier"
       /\ ~SupportedTypeName(d[3].expressions[k].typeIdentifier)

FirstUnsupportedTypeName ==
  IF ~SupportedTypeName(SoleName.typeIdentifier)
    THEN SoleName.typeIdentifier
  ELSE LET bad == { k \in 1..Len(SoleParameters) :
                      ~SupportedTypeName(SoleParameters[k].typeIdentifier) }
       IN SoleParameters[CHOOSE k \in bad : \A i \in bad : k <= i]
            .typeIdentifier

SoleAllTyped ==
  \A k \in 1..Len(SoleParameters) :
    SoleParameters[k].type = "typed-identifier"

BackendTypes == {"i32", "f32"}

UntypedParameter(d) ==
  /\ HasParameterList(d)
  /\ \E k \in 1..Len(d[3].expressions) :
       d[3].expressions[k].type # "typed-identifier"

SoleFirstDefectIsUntyped ==
  \E k \in 1..Len(SoleParameters) :
    /\ SoleParameters[k].type # "typed-identifier"
    /\ \A i \in 1..(k - 1) :
         /\ SoleParameters[i].type = "typed-identifier"
         /\ SupportedTypeName(SoleParameters[i].typeIdentifier)

ApplyOperator(operator, left, right) ==
  CASE operator = "i32.add" -> left + right
    [] operator = "i32.sub" -> left - right
    [] operator = "i32.mul" -> left * right
    [] operator = "i32.lt_s" -> IF left < right THEN 1 ELSE 0
    [] operator = "i32.gt_s" -> IF left > right THEN 1 ELSE 0
    [] operator = "i32.eq" -> IF left = right THEN 1 ELSE 0

\* The function registered under `name'.
FunctionNamed(name) ==
  mod[CHOOSE i \in 1..Len(mod) :
        mod[i].call = "addFunction" /\ mod[i].name = name]

RECURSIVE Eval(_, _, _)
RECURSIVE EvalAll(_, _, _)
\* The values of the operands, left to right.
EvalAll(operands, locals, known) ==
  IF operands = <<>> THEN <<>>
  ELSE <<Eval(Head(operands), locals, known)>>
         \o EvalAll(Tail(operands), locals, known)

\* The value of expression e with the parameter slots holding `locals': a
\* call binds the values of its operands to the slots of the called
\* function, a block yields its last child, a conditional chooses by its
\* condition.  `known' holds the values of the one-parameter function
\* known.of that have been evaluated already, known.values[k + 1] being its
\* value on k: a call of it on such a k yields that value.
Eval(e, locals, known) ==
  CASE e.op = "const" -> e.value
    [] e.op = "local.get" -> locals[e.index + 1]
    [] e.op = "binary" ->
         ApplyOperator(e.operator, Eval(e.left, locals, known),
                       Eval(e.right, locals, known))
    [] e.op = "block" -> Eval(e.children[Len(e.children)], locals, known)
    [] e.op = "if" ->
         IF Eval(e.condition, locals, known) # 0
           THEN Eval(e.ifTrue, locals, known)
         ELSE Eval(e.ifFalse, locals, known)
    [] e.op = "call" ->
         LET args == EvalAll(e.operands, locals, known) IN
           IF /\ e.target = known.of
              /\ Len(args) = 1
              /\ args[1] \in 0..(Len(known.values) - 1)
             THEN known.values[args[1] + 1]
           ELSE Eval(FunctionNamed(e.target).body, args, known)

\* The values of the one-parameter function `name' on 0 .. n - 1, each
\* evaluated from the function's emitted body with the values on the
\* smaller arguments at hand.
RECURSIVE ValuesBelow(_, _)
ValuesBelow(name, n) ==
  IF n = 0 THEN <<>>
  ELSE LET below == ValuesBelow(name, n - 1) IN
    Append(below, Eval(FunctionNamed(name).body, <<n - 1>>,
                       [of |-> name, values |-> below]))

\* The value of the one-parameter function `name' on n.
ValueOf(name, n) == ValuesBelow(name, n + 1)[n + 1]

FibInput == 15

FibResult == 610

\* Every built-in is registered with a body that applies its operator to
\* parameter 0 and parameter 1.
BuiltinsApplyOperator ==
  \A i \in 1..Len(StandardFunctions) :
    LET f == StandardFunctions[i] IN
      FunctionNamed(f.name).body
        = BlockOp(<<BinaryOp(f.operator, LocalGet(0, f.type),
                             LocalGet(1, f.type))>>)

\* C19: lexing, parsing and compiling the source text of fib succeeds, the
\* built-ins apply their operator to parameter 0 and parameter 1, and
\* evaluating the emitted operations of fib on 15 yields 610.
C19_FibOfFifteen ==
  (input = FibSource /\ pc \notin {"lex", "parse", "compile"})
    => /\ Compiled
       /\ ast = BlockNode(<<FibDefinition>>)
       /\ BuiltinsApplyOperator
       /\ ValueOf(fibName, FibInput) = FibResult

\* The source text of fib went through lex, parse and compile, and fib was
\* registered and exported.
C19_Witness ==
  /\ input = FibSource
  /\ Compiled
  /\ \E i \in RegistrationsOf(fibName) : i + 1 \in Exports

(***************************************************************************)
(* The function map that generateFunctionMap returns for the program.      *)
(***************************************************************************)
PrePassDone ==
  /\ pc \in {"done", "failed"}
  /\ generateFunctionMap(ast).error = NoError

PrePassMap == generateFunctionMap(ast).map

DeclaredReturnType(d) == DeclaredTypes(<<d[2]>>)[1]

\* C20 as stated: the map holds, for every block at any depth whose first
\* element is `fn', the function's name with its declared return type.
C20_EveryDefinitionRegistered ==
  PrePassDone =>
    \A b \in AllBlocks(ast) :
      (b.expressions # <<>> /\ b.expressions[1] = Fn) =>
        /\ IsNamedDefinition(b.expressions)
        /\ b.expressions[2].identifier \in DOMAIN PrePassMap
        /\ PrePassMap[b.expressions[2].identifier].returnType
             = DeclaredReturnType(b.expressions)

\* The definitions the scan reaches, in the order it reaches them.
RECURSIVE ScanOrder(_)
RECURSIVE ScanOrderFrom(_, _)
ScanOrderFrom(elements, i) ==
  IF i > Len(elements) THEN <<>>
  ELSE (IF elements[i].type = "block"
          THEN ScanOrder(elements[i].expressions) ELSE <<>>)
       \o ScanOrderFrom(elements, i + 1)

ScanOrder(elements) ==
  IF elements # <<>> /\ elements[1] = Fn
    THEN <<elements>> \o ScanOrder(SubSeq(elements, 4, Len(elements)))
  ELSE ScanOrderFrom(elements, 1)

\* C20, amended: the map holds the name and declared return type of every
\* fn-headed block outside the name slot and the parameter list of every
\* definition, whatever form it is nested in (the last one scanned when
\* several share a name), and nothing else.
C20_ScannedDefinitionsRegistered ==
  PrePassDone =>
    LET scanned == ScanOrder(ast.expressions) IN
      /\ DOMAIN PrePassMap = {scanned[i][2].identifier : i \in 1..Len(scanned)}
      /\ \A i \in 1..Len(scanned) :
           /\ IsNamedDefinition(scanned[i])
           /\ (\A j \in (i + 1)..Len(scanned) :
                 scanned[j][2].identifier # scanned[i][2].identifier)
                => PrePassMap[scanned[i][2].identifier].returnType
                     = DeclaredReturnType(scanned[i])

\* A definition that stands as the else-operand of a conditional, behind
\* another top-level form, was recorded with its return type.
C20_Witness ==
  /\ PrePassDone
  /\ Len(ast.expressions) = 2
  /\ ast.expressions[2] = BlockNode(<<If, Int1, Int1, InnerG>>)
  /\ gName \in DOMAIN PrePassMap
  /\ PrePassMap[gName].returnType = "f32"
  /\ gName \in DOMAIN fmap

(***************************************************************************)
(* Definitions named like the special forms.                               *)
(***************************************************************************)
SpecialNames == {fnName, ifName}

\* The names the top-level definitions of the program give their functions.
TopLevelNames ==
  { ast.expressions[i].expressions[2].identifier :
      i \in { j \in 1..Len(ast.expressions) :
                IsNamedDefinition(ast.expressions[j].expressions) } }

\* Top-level form i is a call form headed by a special name that a top-level
\* definition gives its function, and is not itself a definition.
HeadedByDefinedSpecialName(i) ==
  LET form == ast.expressions[i] IN
    /\ IsCallForm(form)
    /\ form.expressions[1].identifier \in SpecialNames \cap TopLevelNames
    /\ ~IsNamedDefinition(form.expressions)

\* The expressions built during the compile.
BuiltExpressions ==
  { mod[i].expr : i \in { j \in 1..Len(mod) : mod[j].call = "expression" } }

\* C21 as stated: when the program defines a function named `fn' or `if', a
\* call form headed by that name is compiled as an ordinary call of the
\* user-defined function.
C21_UserDefinitionShadows ==
  pc \in {"done", "failed"} =>
    \A i \in 1..Len(ast.expressions) :
      HeadedByDefinedSpecialName(i) =>
        /\ Compiled
        /\ RootExpression.children[i].op = "call"
        /\ RootExpression.children[i].target
             = ast.expressions[i].expressions[1].identifier

\* C21, amended: a call form headed by `fn' or `if' is compiled as the
\* definition or the conditional special form also when the program defines
\* a function of that name: no call of `fn' or `if' is ever emitted, a form
\* headed by the defined `if' yields a conditional, and one headed by the
\* defined `fn' that is not a definition makes compile throw.
C21_SpecialFormWins ==
  pc \in {"done", "failed"} =>
    /\ \A e \in BuiltExpressions : e.op = "call" => e.target \notin SpecialNames
    /\ \A i \in 1..Len(ast.expressions) :
         HeadedByDefinedSpecialName(i) =>
           LET head == ast.expressions[i].expressions[1].identifier IN
             /\ head = fnName => ~Compiled
             /\ (head = ifName /\ Compiled) =>
                  RootExpression.children[i].op = "if"

\* `if' was defined by the program and registered, and the form `(if 1 2)'
\* after it was compiled to a conditional.
C21_Witness ==
  /\ Compiled
  /\ RegistrationsOf(ifName) # {}
  /\ HeadedByDefinedSpecialName(2)
  /\ RootExpression.children[2]
       = IfOp(Const("i32", 1), Const("i32", 2), NoOperand)

(***************************************************************************)
(* The function map during expression compilation.                         *)
(***************************************************************************)
BuiltinNames == { StandardFunctions[k].name : k \in 1..Len(StandardFunctions) }

BuiltinNamed(name) ==
  StandardFunctions[CHOOSE k \in 1..Len(StandardFunctions) :
                      StandardFunctions[k].name = name]

\* C22: the function map is complete (the pre-pass entries plus every
\* built-in, a built-in replacing a user entry of its name) before the first
\* expression is compiled, and expression compilation only reads it: the
\* built-ins are registered ahead of every expression of the program, every
\* emitted call has a target and a return type found in the map compile
\* ends with, and a failed lookup is of a name that map does not hold.
C22_MapBuiltThenOnlyRead ==
  PrePassDone =>
    /\ DOMAIN fmap = (DOMAIN PrePassMap) \cup BuiltinNames
    /\ \A name \in BuiltinNames :
         fmap[name].returnType = BuiltinNamed(name).returnType
    /\ \A name \in (DOMAIN PrePassMap) \ BuiltinNames :
         fmap[name] = PrePassMap[name]
    /\ Len(mod) >= 5 * Len(StandardFunctions)
    /\ \A k \in 1..Len(StandardFunctions) :
         /\ mod[5 * k].call = "addFunction"
         /\ mod[5 * k].name = StandardFunctions[k].name
    /\ \A i \in 1..Len(mod) :
         (mod[i].call = "expression" /\ mod[i].expr.op = "call") =>
           /\ i > 5 * Len(StandardFunctions)
           /\ mod[i].expr.target \in DOMAIN fmap
           /\ mod[i].expr.type = fmap[mod[i].expr.target].returnType
    /\ error = FunctionNotFound => detail \notin DOMAIN fmap

\* fib was compiled: its body calls the built-in lt_i32 and fib itself, both
\* found in the map.
C22_Witness ==
  /\ Compiled
  /\ ast = BlockNode(<<FibDefinition>>)
  /\ fibName \in DOMAIN PrePassMap
  /\ CallsTo(fibName) # {}
  /\ CallsTo(lt_i32) # {}
  /\ fmap[lt_i32].returnType = "i32"

(***************************************************************************)
(* Groupings of literals.                                                  *)
(***************************************************************************)
\* node is a literal, or a block of such nodes that is no call form.
RECURSIVE PlainGrouping(_)
PlainGrouping(node) ==
  \/ node.type = "int"
  \/ /\ node.type = "block"
     /\ ~IsCallForm(node)
     /\ \A i \in 1..Len(node.expressions) : PlainGrouping(node.expressions[i])

\* The expression the claim gives a plain grouping: a constant for a
\* literal, a grouping of the children's expressions in source order for a
\* block.
RECURSIVE GroupingOf(_)
GroupingOf(node) ==
  IF node.type = "int" THEN Const("i32", node.value)
  ELSE BlockOp([i \in 1..Len(node.expressions) |->
                  GroupingOf(node.expressions[i])])

\* The expressions the claim has the backend build for a plain grouping, in
\* order: those of each child, left to right and once each, then the
\* grouping itself.
RECURSIVE BuildOrder(_)
RECURSIVE BuildOrderFrom(_, _)
BuildOrderFrom(nodes, i) ==
  IF i > Len(nodes) THEN <<>>
  ELSE BuildOrder(nodes[i]) \o BuildOrderFrom(nodes, i + 1)

BuildOrder(node) ==
  IF node.type = "int" THEN <<GroupingOf(node)>>
  ELSE BuildOrderFrom(node.expressions, 1) \o <<GroupingOf(node)>>

\* The expressions built after the built-ins, in the order of their
\* building.
ProgramBuildLog ==
  LET first == Len(StandardRegistration.mod) + 1 IN
    [i \in 1..(Len(mod) + 1 - first) |-> mod[first + i - 1].expr]

\* C23: a block that is no call form compiles each child once, left to
\* right, and emits one grouping of the compiled children in source order;
\* a block without children yields a grouping without operands.
C23_GroupingInSourceOrder ==
  (pc \in {"done", "failed"} /\ PlainGrouping(ast)) =>
    /\ Compiled
    /\ RootExpression = GroupingOf(ast)
    /\ \A i \in 1..Len(mod) :
         i > Len(StandardRegistration.mod) => mod[i].call = "expression"
    /\ ProgramBuildLog = BuildOrder(ast)

\* `(1 () 2)' was compiled: three children built in that order, the middle
\* one a grouping without operands.
C23_Witness ==
  /\ Compiled
  /\ ast = BlockNode(<<BlockNode(<<IntNode(1), BlockNode(<<>>),
                                    IntNode(2)>>)>>)
  /\ RootExpression.children[1]
       = BlockOp(<<Const("i32", 1), BlockOp(<<>>), Const("i32", 2)>>)

(***************************************************************************)
(* What parse and lex do to their input.                                   *)
(***************************************************************************)
IsSuffix(s, t) ==
  /\ Len(s) <= Len(t)
  /\ s = SubSeq(t, Len(t) - Len(s) + 1, Len(t))

\* C24: parse consumes the token array from the front: what it leaves is a
\* suffix of what it was given, the leaves of the removed prefix are, once
\* each and in order, the leaves of the trees it built, nothing is left when
\* it succeeds, and the token that made it throw is left first when it
\* fails; neither lex nor parse changes the source text.
C24_ParseConsumesLexPreserves ==
  [][/\ pc = "lex" => input' = input
     /\ pc = "parse" =>
          /\ input' = input
          /\ IsSuffix(tokens', tokens)
          /\ Flatten(trees')
               = SelectSeq(SubSeq(tokens, 1, Len(tokens) - Len(tokens')),
                           IsLeaf)
          /\ error' = NoError => tokens' = <<>>
          /\ error' # NoError =>
               /\ tokens' # <<>>
               /\ ~IsOpening(tokens'[1])]_vars

\* The text `(a)(b)' was lexed to six tokens and parsed to two trees; the
\* token array is empty and the text is as it was.
C24_Witness ==
  /\ pc = "compile"
  /\ input = <<"(", "a", ")", "(", "b", ")">>
  /\ Len(tokens0) = 6
  /\ Len(trees) = 2
  /\ tokens = <<>>

(***************************************************************************)
(* Calls and registrations of one compile.                                 *)
(***************************************************************************)
AddFunctions == { i \in 1..Len(mod) : mod[i].call = "addFunction" }

RegisteredNames == { mod[i].name : i \in AddFunctions }

CallTargets ==
  { e.target : e \in { x \in BuiltExpressions : x.op = "call" } }

\* C25 as stated: after a successful compile every target of an emitted call
\* has been registered with the backend.
C25_EveryCallTargetRegistered ==
  Compiled => CallTargets \subseteq RegisteredNames

\* C26 as stated: in one compile no name is registered with the backend
\* twice, and the map holds for every registered name the return type of the
\* function registered under it.
C26_NoNameRegisteredTwice ==
  pc \in {"done", "failed"} =>
    /\ \A i, j \in AddFunctions : mod[i].name = mod[j].name => i = j
    /\ \A i \in AddFunctions :
         /\ mod[i].name \in DOMAIN fmap
         /\ fmap[mod[i].name].returnType = mod[i].results

(***************************************************************************)
(* Definitions the pre-pass rejects.                                       *)
(***************************************************************************)
\* A fn-headed block whose second element is not a typed identifier with the
\* return type i32 or f32.
BadDefinitionHead(elements) ==
  /\ elements # <<>>
  /\ elements[1] = Fn
  /\ \/ ~IsNamedDefinition(elements)
     \/ mapBinaryenType(elements[2].typeIdentifier) = "unsupported"

FailedInPrePass ==
  /\ pc = "failed"
  /\ error \in {ExpectedTypedFunctionName, UnsupportedType}
  /\ mod = NewModule

\* C27 as stated: a fn-headed block anywhere in the program with a bad second
\* element makes compile fail in the pre-pass, before any backend operation.
C27_BadHeadAnywhereFailsFirst ==
  (/\ pc \in {"done", "failed"}
   /\ \E b \in AllBlocks(ast) : BadDefinitionHead(b.expressions))
    => FailedInPrePass

\* C27, amended: a fn-headed block with a bad second element that lies
\* outside the name slot and the parameter list of every definition (a
\* definition body that begins with `fn' counting as a definition) makes
\* compile fail in the pre-pass, with nothing registered and no backend
\* operation emitted.
C27_ScannedBadHeadFailsFirst ==
  LET scanned == ScanOrder(ast.expressions) IN
    (/\ pc \in {"done", "failed"}
     /\ \E i \in 1..Len(scanned) : BadDefinitionHead(scanned[i]))
      => FailedInPrePass

\* `(fn g:int [] 1)' as the fourth element after `if', which compile would
\* never reach, failed in the pre-pass with an empty module.
C27_Witness ==
  /\ FailedInPrePass
  /\ error = UnsupportedType
  /\ ast = AfterElse(Def(TypedIdentifierNode(gName, intName), <<>>, <<Int1>>))

(***************************************************************************)
(* The order of registrations.                                             *)
(***************************************************************************)
\* The names of the definitions under node in the order the claim gives
\* their registrations: those of a definition's body before the definition
\* itself, those of a conditional's three operands, a call's arguments or a
\* grouping's elements in source order.
RECURSIVE RegistrationOrder(_)
RECURSIVE RegistrationOrderFrom(_, _, _)
RegistrationOrderFrom(elements, i, last) ==
  IF i > last \/ i > Len(elements) THEN <<>>
  ELSE RegistrationOrder(elements[i])
         \o RegistrationOrderFrom(elements, i + 1, last)

RegistrationOrder(node) ==
  IF node.type # "block" THEN <<>>
  ELSE LET elements == node.expressions IN
    IF ~IsCallForm(node) THEN RegistrationOrderFrom(elements, 1, Len(elements))
    ELSE IF elements[1] = Fn
      THEN RegistrationOrder(BlockNode(SubSeq(elements, 4, Len(elements))))
             \o <<elements[2].identifier>>
    ELSE IF elements[1] = If THEN RegistrationOrderFrom(elements, 2, 4)
    ELSE RegistrationOrderFrom(elements, 2, Len(elements))

\* The names registered, in registration order.
RegistrationLog ==
  LET registrations == SelectSeq(mod, LAMBDA c : c.call = "addFunction")
  IN [i \in 1..Len(registrations) |-> registrations[i].name]

\* C28: after a successful compile the registrations are those of the
\* built-ins in their fixed order, followed by those of the program's
\* definitions with every definition after the definitions nested in its
\* body and the definitions of distinct forms in source order.
C28_RegistrationOrder ==
  Compiled =>
    RegistrationLog
      = [k \in 1..Len(StandardFunctions) |-> StandardFunctions[k].name]
          \o RegistrationOrder(ast)

\* A program of two forms, a definition of f with a definition of g in its
\* body and then another definition of g, was compiled: the sixteen
\* registrations end with g, f, g.
C28_Witness ==
  /\ Compiled
  /\ Len(ast.expressions) = 2
  /\ IsNamedDefinition(ast.expressions[1].expressions)
  /\ ast.expressions[1].expressions[2].identifier = fName
  /\ Len(RegistrationLog) = Len(StandardFunctions) + 3
  /\ SubSeq(RegistrationLog, Len(StandardFunctions) + 1, Len(RegistrationLog))
       = <<gName, fName, gName>>

(***************************************************************************)
(* The body of a definition.                                               *)
(***************************************************************************)
\* The registration of the program's only top-level definition: the last
\* registration of the log.
SoleRegistration ==
  mod[CHOOSE i \in UserFunctions : \A j \in UserFunctions : j <= i]

\* C29: the body of a definition, its elements from index 3 on taken as one
\* block, is compiled as the special form or call its first element heads
\* when that element is an identifier and the body has more than one
\* element, and as a grouping of its elements otherwise; a head that is
\* neither `fn' nor `if' is looked up as a function even when it names a
\* parameter.
C29_BodyPassesCallFormTest ==
  (SoleDefinition /\ SoleWellTyped) =>
    LET body == BlockNode(SoleBody)
        head == SoleBody[1].identifier
    IN /\ Compiled =>
            IF ~IsCallForm(body)
              THEN /\ SoleRegistration.body.op = "block"
                   /\ Len(SoleRegistration.body.children) = Len(SoleBody)
            ELSE IF head = fnName THEN SoleRegistration.body = NopOp
            ELSE IF head = ifName THEN SoleRegistration.body.op = "if"
            ELSE /\ SoleRegistration.body.op = "call"
                 /\ SoleRegistration.body.target = head
                 /\ Len(SoleRegistration.body.operands) = Len(SoleBody) - 1
       /\ (/\ PrePassDone
           /\ IsCallForm(body)
           /\ head \notin SpecialNames
           /\ head \notin DOMAIN fmap)
            => /\ pc = "failed"
               /\ error = FunctionNotFound
               /\ detail = head

\* `(fn f:i32 [a:i32 b:i32] if 1 a b)' was compiled: the registered body is
\* the conditional itself.
C29_Witness ==
  /\ Compiled /\ SoleDefinition /\ SoleWellTyped
  /\ SoleBody = <<If, Int1, IdentifierNode(aName), IdentifierNode(bName)>>
  /\ SoleRegistration.body
       = IfOp(Const("i32", 1), LocalGet(0, "i32"), LocalGet(1, "i32"))

\* `(fn f:i32 [a:i32 b:i32] a 1)' failed: the parameter a at the head of
\* the body was looked up as a function.
ParameterHeadedBodyFails ==
  /\ SoleDefinition /\ SoleWellTyped
  /\ SoleBody = <<IdentifierNode(aName), Int1>>
  /\ pc = "failed" /\ error = FunctionNotFound /\ detail = aName

(***************************************************************************)
(* Termination of lex and parse.                                           *)
(***************************************************************************)
\* The state of the word loop of lex before its first pass.
LexStart ==
  [chars |-> trim(input), error |-> NoError, tokens |-> <<>>,
   words |-> <<>>, done |-> FALSE]

\* The number of groups and leaves of a sequence of tree items.
RECURSIVE TreeSize(_)
TreeSize(items) ==
  IF items = <<>> THEN 0
  ELSE (IF isArray(Head(items)) THEN 1 + TreeSize(Head(items).items) ELSE 1)
       + TreeSize(Tail(items))

\* C30: the word loop of lex ends within one pass per character of the
\* trimmed input and one more, every pass that does not end it leaves fewer
\* characters, and no more words are read than there are characters; every
\* call of consumeTokenTree throws or leaves fewer tokens, and parse builds
\* no more groups and leaves than it removed tokens.
C30_LexAndParseWithinBound ==
  /\ lexLoop(LexStart, Len(LexStart.chars) + 1).done
  /\ \A k \in 1..(Len(LexStart.chars) + 1) :
       LET before == lexLoop(LexStart, k - 1)
           after == lexPass(before)
       IN ~before.done =>
            \/ after.done
            \/ Len(after.chars) < Len(before.chars)
  /\ Len(words) <= Len(trim(input))
  /\ \A k \in 1..Len(tokens0) :
       LET toks == SubSeq(tokens0, k, Len(tokens0))
           r == consumeTokenTree(toks)
       IN r.error # NoError \/ Len(r.tokens) < Len(toks)
  /\ TreeSize(trees) <= Len(tokens0) - Len(tokens)

\* `()()' was read in four passes and parsed into two groups.
C30_Witness ==
  /\ pc = "compile"
  /\ input = <<"(", ")", "(", ")">>
  /\ Len(words) = 4
  /\ Len(trees) = 2
  /\ tokens = <<>>

====
